---- MODULE Spec2Model ----
(***************************************************************************)
(* Model of td/telegram/ReferralProgramManager.cpp: the seven facade       *)
(* operations of ReferralProgramManager, the eligibility validator         *)
(* check_referable_dialog_id, and the seven Td::ResultHandler adapters     *)
(* (send / on_result / on_error).                                          *)
(*                                                                         *)
(* Every handler of the source is modelled as a pure operator that yields  *)
(* the ordered list of effects the handler performs (registry calls,       *)
(* send_query, promise.set_value, promise.set_error); one action applies   *)
(* the whole list atomically, since every handler runs to completion on    *)
(* the single actor thread.  The per-call log keeps the effects in the     *)
(* order the code performs them.                                           *)
(*                                                                         *)
(* Strings that the code parses or builds (offsets, urls) are sequences of *)
(* one-character strings; fixed error messages are TLA+ strings.           *)
(***************************************************************************)
EXTENDS Integers, Sequences, FiniteSets, TLC

VARIABLES
    calls,            \* call id -> [op, args, log]: one facade invocation and its adapter
    users,            \* UserManager: the users have_user() answers TRUE for
    dialog_errors,    \* DialogManager::on_get_dialog_error notifications received
    created_dialogs,  \* MessagesManager::force_create_dialog targets
    referral_infos,   \* UserManager::on_update_user_referral_program_info updates
    crashed,          \* the process hit UNREACHABLE() and aborted
    parent_           \* the manager still holds the reference to its parent actor

vars == <<calls, users, dialog_errors, created_dialogs, referral_infos, crashed, parent_>>

(***************************************************************************)
(* Bounds of the model.                                                    *)
(***************************************************************************)
MaxCalls == 1        \* facade invocations in flight together (Spec)
MaxLimit == 1        \* the limits tried are -MaxLimit, 0 and MaxLimit
MaxOffsetLen == 3    \* length of the generated offset strings (SpecCursor)
MaxRecords == 2      \* raw records in a list response (SpecList)
MaxCount == 3        \* total count reported by a list response (SpecList)
MaxDate == 11        \* dates of raw connection records (SpecCursor)
MaxAdapters == 3     \* handlers in flight together (SpecConcurrent)
MaxPages == 3        \* requests of one caller paging through a list (SpecPaging)

CallIds == 1..MaxCalls

(***************************************************************************)
(* Strings as sequences of characters.                                     *)
(***************************************************************************)
Digits == <<"0", "1", "2", "3", "4", "5", "6", "7", "8", "9">>

is_digit(ch) == \E i \in 1..10 : Digits[i] = ch

DigitValue(ch) == (CHOOSE i \in 1..10 : Digits[i] = ch) - 1

Str_t_me_bot ==
    <<"h","t","t","p","s",":","/","/","t",".","m","e","/","b","o","t">>

RECURSIVE StringsUpTo(_, _)
StringsUpTo(alphabet, n) ==
    IF n = 0 THEN {<<>>}
    ELSE LET shorter == StringsUpTo(alphabet, n - 1)
         IN  shorter \cup {Append(s, ch) : s \in shorter, ch \in alphabet}

(***************************************************************************)
(* Status values.                                                          *)
(***************************************************************************)
StatusOK == [code |-> 0, message |-> "OK"]

StatusError(code, message) == [code |-> code, message |-> message]

\* Marks the control path that reaches UNREACHABLE().
Unreachable == [code |-> -1, message |-> "UNREACHABLE"]

(***************************************************************************)
(* Identities.  A DialogId is a tagged value [type, id]; the tables below  *)
(* are the collaborators' answers (UserManager, ChatManager,               *)
(* DialogManager) for a fixed population that covers every branch of the   *)
(* facade: user 1 is the caller, 2 an owned bot, 3 an owned bot without a  *)
(* wire reference, 4 a foreign bot, 5 a regular user, 6 an unknown user;   *)
(* channel 1 is a broadcast channel the caller can post in, 2 a broadcast  *)
(* channel without post rights, 3 a supergroup with post rights, 4 a       *)
(* supergroup without, 5 an inaccessible broadcast channel.                *)
(***************************************************************************)
DialogId(type, id) == [type |-> type, id |-> id]

NoDialogId == DialogId("None", 0)

UserIds == 1..6

DialogIds ==
    {DialogId("User", u) : u \in UserIds}
    \cup {DialogId("Chat", 1), DialogId("Chat", 2)}
    \cup {DialogId("Channel", ch) : ch \in 1..5}
    \cup {DialogId("SecretChat", 1), NoDialogId}

get_my_dialog_id == DialogId("User", 1)

\* DialogManager::check_dialog_access(dialog_id, false, AccessRights::Read, ...)
\* The second argument is allow_secret_chats: a secret chat never passes.
check_dialog_access(dialog_id) ==
    IF dialog_id \in {DialogId("User", 6), DialogId("Chat", 2),
                      DialogId("Channel", 5), NoDialogId}
    THEN StatusError(400, "Chat not found")
    ELSE IF dialog_id.type = "SecretChat"
    THEN StatusError(400, "Can't access the chat")
    ELSE StatusOK

\* DialogManager::get_input_peer(dialog_id, AccessRights::Read) != nullptr
get_input_peer(dialog_id) == check_dialog_access(dialog_id) = StatusOK

\* UserManager::get_bot_data(user_id): Result<BotData>
get_bot_data(user_id) ==
    CASE user_id \in {2, 3} -> [ok |-> TRUE, can_be_edited |-> TRUE, status |-> StatusOK]
      [] user_id = 4 -> [ok |-> TRUE, can_be_edited |-> FALSE, status |-> StatusOK]
      [] user_id \in {1, 5} ->
            [ok |-> FALSE, can_be_edited |-> FALSE,
             status |-> StatusError(400, "User is not a bot")]
      [] OTHER ->
            [ok |-> FALSE, can_be_edited |-> FALSE,
             status |-> StatusError(400, "Bot not found")]

\* UserManager::get_input_user(user_id): Result<InputUser>
get_input_user(user_id) ==
    IF user_id \in {1, 2, 4, 5}
    THEN [ok |-> TRUE, input_user |-> user_id, status |-> StatusOK]
    ELSE [ok |-> FALSE, input_user |-> 0, status |-> StatusError(400, "User not found")]

\* ChatManager::is_broadcast_channel(channel_id)
is_broadcast_channel(channel_id) == channel_id \in {1, 2, 5}

\* ChatManager::get_channel_permissions(channel_id).can_post_messages()
can_post_messages(channel_id) == channel_id \in {1, 3, 5}

\* The users UserManager knows before any response was ingested.
InitialUsers == 1..5

\* UserManager::have_user, asked of the registry content `known`.
have_user(known, user_id) == user_id \in known

(***************************************************************************)
(* ReferralProgramParameters (declared in ReferralProgramParameters.h).    *)
(***************************************************************************)
ReferralProgramParameters(commission, month_count) ==
    [commission |-> commission, month_count |-> month_count]

\* The default-constructed value: no program.
DefaultParameters == ReferralProgramParameters(0, 0)

Parameters_is_valid(parameters) ==
    /\ 1 <= parameters.commission /\ parameters.commission <= 999
    /\ 0 <= parameters.month_count /\ parameters.month_count <= 36

(***************************************************************************)
(* Effects: what a handler does, in the order the code does it.            *)
(***************************************************************************)
SetError(status) == [ev |-> "set_error", status |-> status]

SetValue(value) == [ev |-> "set_value", value |-> value]

CreateHandler(class) == [ev |-> "create_handler", class |-> class]

Assign(member, value) == [ev |-> "assign", member |-> member, value |-> value]

SendQuery(query) == [ev |-> "send_query", query |-> query]

Validated(dialog_id, status) ==
    [ev |-> "check_referable_dialog_id", dialog_id |-> dialog_id, status |-> status]

OnGetDialogError(dialog_id, status) ==
    [ev |-> "on_get_dialog_error", dialog_id |-> dialog_id, status |-> status]

OnGetUsers(us) == [ev |-> "on_get_users", users |-> us]

OnGetChats(chats) == [ev |-> "on_get_chats", chats |-> chats]

ForceCreateDialog(dialog_id) == [ev |-> "force_create_dialog", dialog_id |-> dialog_id]

OnUpdateUserReferralProgramInfo(user_id, info) ==
    [ev |-> "on_update_user_referral_program_info", user_id |-> user_id, info |-> info]

\* UNREACHABLE() or a failed CHECK: the process aborts.
Fatal == [ev |-> "fatal"]

\* TRY_STATUS_PROMISE(promise, status) / TRY_RESULT_PROMISE(promise, r, ...):
\* settle the promise with the error and return, or go on with `rest`.
TryStatusPromise(status, rest) ==
    IF status = Unreachable THEN <<Fatal>>
    ELSE IF status # StatusOK THEN <<SetError(status)>>
    ELSE rest

(***************************************************************************)
(* td/utils/misc.h: split and to_integer<int32>, as used by                *)
(* GetConnectedStarRefBotsQuery::send.  to_integer returns a plain int32:  *)
(* it has no error result.  Its accumulator is an unsigned 32-bit value,   *)
(* kept here as two 16-bit halves <<hi, lo>> so that the wrap-around is    *)
(* the machine's.                                                          *)
(***************************************************************************)
RECURSIVE find(_, _, _)
find(s, ch, i) ==
    IF i > Len(s) THEN 0
    ELSE IF s[i] = ch THEN i
    ELSE find(s, ch, i + 1)

\* split(s, ' '): cut at the first delimiter; no delimiter: <<s, "">>.
split(s) ==
    LET delimiter_pos == find(s, " ", 1)
    IN  IF delimiter_pos = 0
        THEN [first |-> s, second |-> <<>>]
        ELSE [first |-> SubSeq(s, 1, delimiter_pos - 1),
              second |-> SubSeq(s, delimiter_pos + 1, Len(s))]

RECURSIVE parse_digits(_, _, _)
parse_digits(s, i, acc) ==
    IF i > Len(s) \/ ~is_digit(s[i]) THEN acc
    ELSE LET lo == acc[2] * 10 + DigitValue(s[i])
             hi == (acc[1] * 10 + (lo \div 65536)) % 65536
         IN  parse_digits(s, i + 1, <<hi, lo % 65536>>)

\* ~x + 1 on 32 bits.
negate32(acc) ==
    IF acc[2] = 0 THEN <<(65536 - acc[1]) % 65536, 0>>
    ELSE <<65535 - acc[1], 65536 - acc[2]>>

to_integer(s) ==
    LET minus == Len(s) > 0 /\ s[1] = "-"
        parsed == parse_digits(s, IF minus THEN 2 ELSE 1, <<0, 0>>)
        big == parsed[1] >= 32768
        acc == IF big THEN negate32(parsed) ELSE parsed
        is_negative == IF big THEN ~minus ELSE minus
        value == acc[1] * 65536 + acc[2]
    IN  IF acc[1] >= 32768 THEN (-2147483647) - 1
        ELSE IF is_negative THEN 0 - value
        ELSE value

\* StringBuilder << int32: the decimal digits, '-' first when negative.
RECURSIVE to_decimal(_)
to_decimal(n) ==
    IF n < 0 THEN <<"-">> \o to_decimal(0 - n)
    ELSE IF n < 10 THEN <<Digits[n + 1]>>
    ELSE Append(to_decimal(n \div 10), Digits[(n % 10) + 1])

(***************************************************************************)
(* ReferralProgramManager::check_referable_dialog_id                        *)
(***************************************************************************)
\* Variant: the post rights of a broadcast channel are not looked at.
check_referable_dialog_id_no_rights(dialog_id) ==
    IF check_dialog_access(dialog_id) # StatusOK THEN check_dialog_access(dialog_id)
    ELSE CASE dialog_id.type = "User" ->
                IF dialog_id = get_my_dialog_id THEN StatusOK
                ELSE IF ~get_bot_data(dialog_id.id).ok THEN get_bot_data(dialog_id.id).status
                ELSE IF get_bot_data(dialog_id.id).can_be_edited THEN StatusOK
                ELSE StatusError(400, "The bot isn't owned")
           [] dialog_id.type = "Chat" ->
                StatusError(400, "The chat must be a channel chat")
           [] dialog_id.type = "Channel" ->
                IF ~is_broadcast_channel(dialog_id.id)
                THEN StatusError(400, "The chat must be a channel chat")
                ELSE StatusOK
           [] OTHER -> Unreachable

\* Variant: the post rights of a channel are tested before its kind.
check_referable_dialog_id_rights_first(dialog_id) ==
    IF check_dialog_access(dialog_id) # StatusOK THEN check_dialog_access(dialog_id)
    ELSE CASE dialog_id.type = "User" ->
                IF dialog_id = get_my_dialog_id THEN StatusOK
                ELSE IF ~get_bot_data(dialog_id.id).ok THEN get_bot_data(dialog_id.id).status
                ELSE IF get_bot_data(dialog_id.id).can_be_edited THEN StatusOK
                ELSE StatusError(400, "The bot isn't owned")
           [] dialog_id.type = "Chat" ->
                StatusError(400, "The chat must be a channel chat")
           [] dialog_id.type = "Channel" ->
                IF ~can_post_messages(dialog_id.id)
                THEN StatusError(400, "Not enough rights in the chat")
                ELSE IF ~is_broadcast_channel(dialog_id.id)
                THEN StatusError(400, "The chat must be a channel chat")
                ELSE StatusOK
           [] OTHER -> Unreachable

\* Variant: a failed get_bot_data is treated like a bot that cannot be edited.
check_referable_dialog_id_lookup_ignored(dialog_id) ==
    IF check_dialog_access(dialog_id) # StatusOK THEN check_dialog_access(dialog_id)
    ELSE CASE dialog_id.type = "User" ->
                IF dialog_id = get_my_dialog_id THEN StatusOK
                ELSE IF get_bot_data(dialog_id.id).ok /\ get_bot_data(dialog_id.id).can_be_edited
                THEN StatusOK
                ELSE StatusError(400, "The bot isn't owned")
           [] dialog_id.type = "Chat" ->
                StatusError(400, "The chat must be a channel chat")
           [] dialog_id.type = "Channel" ->
                IF ~is_broadcast_channel(dialog_id.id)
                THEN StatusError(400, "The chat must be a channel chat")
                ELSE IF ~can_post_messages(dialog_id.id)
                THEN StatusError(400, "Not enough rights in the chat")
                ELSE StatusOK
           [] OTHER -> Unreachable

check_referable_dialog_id(dialog_id) ==
    IF check_dialog_access(dialog_id) # StatusOK THEN check_dialog_access(dialog_id)
    ELSE CASE dialog_id.type = "User" ->
                IF dialog_id = get_my_dialog_id THEN StatusOK
                ELSE IF ~get_bot_data(dialog_id.id).ok THEN get_bot_data(dialog_id.id).status
                ELSE IF get_bot_data(dialog_id.id).can_be_edited THEN StatusOK
                ELSE StatusError(400, "The bot isn't owned")
           [] dialog_id.type = "Chat" ->
                StatusError(400, "The chat must be a channel chat")
           [] dialog_id.type = "Channel" ->
                IF ~is_broadcast_channel(dialog_id.id)
                THEN StatusError(400, "The chat must be a channel chat")
                ELSE IF ~can_post_messages(dialog_id.id)
                THEN StatusError(400, "Not enough rights in the chat")
                ELSE StatusOK
           [] OTHER -> Unreachable

(***************************************************************************)
(* The send methods: member assignments, then one send_query.              *)
(***************************************************************************)
\* CHECK(input_peer != nullptr), then the query.
WithInputPeer(dialog_id, query) ==
    IF get_input_peer(dialog_id) THEN <<SendQuery(query)>> ELSE <<Fatal>>

UpdateStarRefProgramQuery_send(user_id, input_user, parameters) ==
    <<Assign("user_id_", user_id),
      SendQuery([name |-> "bots_updateStarRefProgram",
                 flags |-> IF parameters.month_count # 0
                           THEN {"DURATION_MONTHS_MASK"} ELSE {},
                 bot |-> input_user,
                 commission_permille |-> parameters.commission,
                 duration_months |-> parameters.month_count])>>

ResolveReferralProgramQuery_send(username, referrer) ==
    <<SendQuery([name |-> "contacts_resolveUsername",
                 flags |-> {"REFERER_MASK"},
                 username |-> username,
                 referer |-> referrer])>>

GetSuggestedStarRefBotsQuery_send(dialog_id, sort_order, offset, limit) ==
    <<Assign("dialog_id_", dialog_id)>> \o
    IF sort_order \notin {"Profitability", "Date", "Revenue"} THEN <<Fatal>>
    ELSE WithInputPeer(dialog_id,
            [name |-> "payments_getSuggestedStarRefBots",
             flags |-> CASE sort_order = "Profitability" -> {}
                         [] sort_order = "Date" -> {"ORDER_BY_DATE_MASK"}
                         [] sort_order = "Revenue" -> {"ORDER_BY_REVENUE_MASK"},
             peer |-> dialog_id,
             offset |-> offset,
             limit |-> limit])

ConnectStarRefBotQuery_send(dialog_id, input_user) ==
    <<Assign("dialog_id_", dialog_id)>> \o
    WithInputPeer(dialog_id,
        [name |-> "payments_connectStarRefBot", peer |-> dialog_id, bot |-> input_user])

EditConnectedStarRefBotQuery_send(dialog_id, url) ==
    <<Assign("dialog_id_", dialog_id)>> \o
    WithInputPeer(dialog_id,
        [name |-> "payments_editConnectedStarRefBot",
         flags |-> {"REVOKED_MASK"}, peer |-> dialog_id, link |-> url])

GetConnectedStarRefBotQuery_send(dialog_id, input_user) ==
    <<Assign("dialog_id_", dialog_id)>> \o
    WithInputPeer(dialog_id,
        [name |-> "payments_getConnectedStarRefBot", peer |-> dialog_id, bot |-> input_user])

\* Variant: the whole offset is kept as the link.
DecodeOffset_whole_link(offset) ==
    IF offset # <<>>
    THEN [date |-> to_integer(split(offset).first),
          link |-> offset,
          flags |-> {"OFFSET_DATE_MASK"}]
    ELSE [date |-> 0, link |-> <<>>, flags |-> {}]

\* Variant: the offset flag is set only when the decoded date is not 0.
DecodeOffset_flag_if_dated(offset) ==
    IF offset # <<>>
    THEN [date |-> to_integer(split(offset).first),
          link |-> split(offset).second,
          flags |-> IF to_integer(split(offset).first) # 0
                    THEN {"OFFSET_DATE_MASK"} ELSE {}]
    ELSE [date |-> 0, link |-> <<>>, flags |-> {}]

\* Lines 314-322: the decoding of the offset into date, link and flags.
DecodeOffset(offset) ==
    IF offset # <<>>
    THEN [date |-> to_integer(split(offset).first),
          link |-> split(offset).second,
          flags |-> {"OFFSET_DATE_MASK"}]
    ELSE [date |-> 0, link |-> <<>>, flags |-> {}]

\* Variant: OFFSET_DATE_MASK is never set.
GetConnectedStarRefBotsQuery_send_unflagged(dialog_id, offset, limit) ==
    <<Assign("dialog_id_", dialog_id)>> \o
    WithInputPeer(dialog_id,
        [name |-> "payments_getConnectedStarRefBots",
         flags |-> {},
         peer |-> dialog_id,
         offset_date |-> DecodeOffset(offset).date,
         offset_link |-> DecodeOffset(offset).link,
         limit |-> limit])

GetConnectedStarRefBotsQuery_send(dialog_id, offset, limit) ==
    <<Assign("dialog_id_", dialog_id)>> \o
    WithInputPeer(dialog_id,
        [name |-> "payments_getConnectedStarRefBots",
         flags |-> DecodeOffset(offset).flags,
         peer |-> dialog_id,
         offset_date |-> DecodeOffset(offset).date,
         offset_link |-> DecodeOffset(offset).link,
         limit |-> limit])

(***************************************************************************)
(* The facade: each operation yields the effects of the call.              *)
(***************************************************************************)
\* Variant: the default-constructed parameters are not exempted from is_valid.
set_dialog_referral_program_strict(dialog_id, parameters) ==
    IF ~Parameters_is_valid(parameters)
    THEN <<SetError(StatusError(400, "Invalid affiliate parameters specified"))>>
    ELSE CASE dialog_id.type = "User" ->
                TryStatusPromise(get_bot_data(dialog_id.id).status,
                    IF ~get_bot_data(dialog_id.id).can_be_edited
                    THEN <<SetError(StatusError(400, "The bot isn't owned"))>>
                    ELSE TryStatusPromise(get_input_user(dialog_id.id).status,
                            <<CreateHandler("UpdateStarRefProgramQuery")>> \o
                            UpdateStarRefProgramQuery_send(dialog_id.id,
                                get_input_user(dialog_id.id).input_user, parameters)))
           [] dialog_id.type \in {"Chat", "Channel", "SecretChat", "None"} ->
                <<SetError(StatusError(400, "The chat can't have affiliate program"))>>
           [] OTHER -> <<Fatal>>

set_dialog_referral_program(dialog_id, parameters) ==
    IF ~Parameters_is_valid(parameters) /\ parameters # DefaultParameters
    THEN <<SetError(StatusError(400, "Invalid affiliate parameters specified"))>>
    ELSE CASE dialog_id.type = "User" ->
                TryStatusPromise(get_bot_data(dialog_id.id).status,
                    IF ~get_bot_data(dialog_id.id).can_be_edited
                    THEN <<SetError(StatusError(400, "The bot isn't owned"))>>
                    ELSE TryStatusPromise(get_input_user(dialog_id.id).status,
                            <<CreateHandler("UpdateStarRefProgramQuery")>> \o
                            UpdateStarRefProgramQuery_send(dialog_id.id,
                                get_input_user(dialog_id.id).input_user, parameters)))
           [] dialog_id.type \in {"Chat", "Channel", "SecretChat", "None"} ->
                <<SetError(StatusError(400, "The chat can't have affiliate program"))>>
           [] OTHER -> <<Fatal>>

search_dialog_referral_program(username, referral) ==
    <<CreateHandler("ResolveReferralProgramQuery")>> \o
    ResolveReferralProgramQuery_send(username, referral)

\* Variant: the limit is compared with `<` instead of `<=`.
search_referral_programs_negative(dialog_id, sort_order, offset, limit) ==
    <<Validated(dialog_id, check_referable_dialog_id(dialog_id))>> \o
    TryStatusPromise(check_referable_dialog_id(dialog_id),
        IF limit < 0
        THEN <<SetError(StatusError(400, "Limit must be positive"))>>
        ELSE <<CreateHandler("GetSuggestedStarRefBotsQuery")>> \o
             GetSuggestedStarRefBotsQuery_send(dialog_id, sort_order, offset, limit))

search_referral_programs(dialog_id, sort_order, offset, limit) ==
    <<Validated(dialog_id, check_referable_dialog_id(dialog_id))>> \o
    TryStatusPromise(check_referable_dialog_id(dialog_id),
        IF limit <= 0
        THEN <<SetError(StatusError(400, "Limit must be positive"))>>
        ELSE <<CreateHandler("GetSuggestedStarRefBotsQuery")>> \o
             GetSuggestedStarRefBotsQuery_send(dialog_id, sort_order, offset, limit))

\* Variant: the result of get_input_user is used without being tested.
connect_referral_program_unresolved(dialog_id, bot_user_id) ==
    <<Validated(dialog_id, check_referable_dialog_id(dialog_id))>> \o
    TryStatusPromise(check_referable_dialog_id(dialog_id),
        <<CreateHandler("ConnectStarRefBotQuery")>> \o
        ConnectStarRefBotQuery_send(dialog_id, get_input_user(bot_user_id).input_user))

connect_referral_program(dialog_id, bot_user_id) ==
    <<Validated(dialog_id, check_referable_dialog_id(dialog_id))>> \o
    TryStatusPromise(check_referable_dialog_id(dialog_id),
        TryStatusPromise(get_input_user(bot_user_id).status,
            <<CreateHandler("ConnectStarRefBotQuery")>> \o
            ConnectStarRefBotQuery_send(dialog_id, get_input_user(bot_user_id).input_user)))

\* Variant: the handler is created without the validator having run.
revoke_referral_program_unchecked(dialog_id, url) ==
    <<CreateHandler("EditConnectedStarRefBotQuery")>> \o
    EditConnectedStarRefBotQuery_send(dialog_id, url)

revoke_referral_program(dialog_id, url) ==
    <<Validated(dialog_id, check_referable_dialog_id(dialog_id))>> \o
    TryStatusPromise(check_referable_dialog_id(dialog_id),
        <<CreateHandler("EditConnectedStarRefBotQuery")>> \o
        EditConnectedStarRefBotQuery_send(dialog_id, url))

get_connected_referral_program(dialog_id, bot_user_id) ==
    <<Validated(dialog_id, check_referable_dialog_id(dialog_id))>> \o
    TryStatusPromise(check_referable_dialog_id(dialog_id),
        TryStatusPromise(get_input_user(bot_user_id).status,
            <<CreateHandler("GetConnectedStarRefBotQuery")>> \o
            GetConnectedStarRefBotQuery_send(dialog_id,
                get_input_user(bot_user_id).input_user)))

\* Variant: the limit is tested before the target.
get_connected_referral_programs_limit_first(dialog_id, offset, limit) ==
    IF limit <= 0
    THEN <<SetError(StatusError(400, "Limit must be positive"))>>
    ELSE <<Validated(dialog_id, check_referable_dialog_id(dialog_id))>> \o
         TryStatusPromise(check_referable_dialog_id(dialog_id),
            <<CreateHandler("GetConnectedStarRefBotsQuery")>> \o
            GetConnectedStarRefBotsQuery_send(dialog_id, offset, limit))

get_connected_referral_programs(dialog_id, offset, limit) ==
    <<Validated(dialog_id, check_referable_dialog_id(dialog_id))>> \o
    TryStatusPromise(check_referable_dialog_id(dialog_id),
        IF limit <= 0
        THEN <<SetError(StatusError(400, "Limit must be positive"))>>
        ELSE <<CreateHandler("GetConnectedStarRefBotsQuery")>> \o
             GetConnectedStarRefBotsQuery_send(dialog_id, offset, limit))

(***************************************************************************)
(* Value objects built from raw records.  A raw connectedBotStarRef is     *)
(* [bot_id, url, date]; a raw starRefProgram is [bot_id]; the remaining    *)
(* wire fields are copied through unchanged by the constructors and take   *)
(* no part in any decision of this file.                                   *)
(***************************************************************************)
\* SuggestedBotStarRef::is_valid (ReferralProgramManager.h)
SuggestedBotStarRef_is_valid(ref) == ref.bot_id > 0

\* ConnectedBotStarRef::is_valid (ReferralProgramManager.h)
ConnectedBotStarRef_is_valid(ref) == ref.bot_id > 0 /\ ref.url # <<>>

get_found_affiliate_program_object(ref) == [bot_user_id |-> ref.bot_id]

get_chat_affiliate_program_object(ref) ==
    [url |-> ref.url, bot_user_id |-> ref.bot_id, connection_date |-> ref.date]

\* Unit(), the value of a Promise<Unit>.
Unit == [unit |-> TRUE]

\* nullptr as the value of a Promise<object_ptr<chatAffiliateProgram>>.
NullObject == [null |-> TRUE]

\* MessagesManager::get_chat_object
get_chat_object(dialog_id) == [chat |-> dialog_id]

\* fetch_result<T>(packet): packet.ok tells whether the packet deserializes;
\* packet.error is the status fetch_result returns when it does not.
fetch_result_is_error(packet) == ~packet.ok

(***************************************************************************)
(* on_error of the seven handlers.                                         *)
(***************************************************************************)
UpdateStarRefProgramQuery_on_error(status) == <<SetError(status)>>

ResolveReferralProgramQuery_on_error(status) == <<SetError(status)>>

\* Variant: the promise is settled first, the registry told afterwards.
GetSuggestedStarRefBotsQuery_on_error_settles_first(dialog_id_, status) ==
    <<SetError(status), OnGetDialogError(dialog_id_, status)>>

GetSuggestedStarRefBotsQuery_on_error(dialog_id_, status) ==
    <<OnGetDialogError(dialog_id_, status), SetError(status)>>

ConnectStarRefBotQuery_on_error(dialog_id_, status) ==
    <<OnGetDialogError(dialog_id_, status), SetError(status)>>

EditConnectedStarRefBotQuery_on_error(dialog_id_, status) ==
    <<OnGetDialogError(dialog_id_, status), SetError(status)>>

GetConnectedStarRefBotQuery_on_error(dialog_id_, status) ==
    <<OnGetDialogError(dialog_id_, status), SetError(status)>>

GetConnectedStarRefBotsQuery_on_error(dialog_id_, status) ==
    <<OnGetDialogError(dialog_id_, status), SetError(status)>>

(***************************************************************************)
(* on_result of the seven handlers.                                        *)
(***************************************************************************)
UpdateStarRefProgramQuery_on_result(user_id_, packet) ==
    IF fetch_result_is_error(packet)
    THEN UpdateStarRefProgramQuery_on_error(packet.error)
    ELSE <<OnUpdateUserReferralProgramInfo(user_id_, packet.info), SetValue(Unit)>>

\* Variant: the type of the resolved peer is not tested, only its identifier.
ResolveReferralProgramQuery_on_result_any_type(known, packet) ==
    IF fetch_result_is_error(packet)
    THEN ResolveReferralProgramQuery_on_error(packet.error)
    ELSE <<OnGetUsers(packet.users_), OnGetChats(packet.chats_)>> \o
         IF ~have_user(known \cup packet.users_, packet.peer.id)
         THEN ResolveReferralProgramQuery_on_error(StatusError(400, "Chat not found"))
         ELSE <<ForceCreateDialog(packet.peer), SetValue(get_chat_object(packet.peer))>>

\* Variant: have_user is asked of UserManager as it was before the users of the
\* response were handed to it.
ResolveReferralProgramQuery_on_result_before_ingest(known, packet) ==
    IF fetch_result_is_error(packet)
    THEN ResolveReferralProgramQuery_on_error(packet.error)
    ELSE <<OnGetUsers(packet.users_), OnGetChats(packet.chats_)>> \o
         IF \/ packet.peer.type # "User"
            \/ ~have_user(known, packet.peer.id)
         THEN ResolveReferralProgramQuery_on_error(StatusError(400, "Chat not found"))
         ELSE <<ForceCreateDialog(packet.peer), SetValue(get_chat_object(packet.peer))>>

\* `known` is the content of UserManager when the handler starts.
ResolveReferralProgramQuery_on_result(known, packet) ==
    IF fetch_result_is_error(packet)
    THEN ResolveReferralProgramQuery_on_error(packet.error)
    ELSE <<OnGetUsers(packet.users_), OnGetChats(packet.chats_)>> \o
         IF \/ packet.peer.type # "User"
            \/ ~have_user(known \cup packet.users_, packet.peer.id)
         THEN ResolveReferralProgramQuery_on_error(StatusError(400, "Chat not found"))
         ELSE <<ForceCreateDialog(packet.peer), SetValue(get_chat_object(packet.peer))>>

\* Lines 139-147: the loop over ptr->suggested_bots_.
RECURSIVE SuggestedPrograms(_, _, _)
SuggestedPrograms(refs, i, programs) ==
    IF i > Len(refs) THEN programs
    ELSE IF ~SuggestedBotStarRef_is_valid(refs[i])
    THEN SuggestedPrograms(refs, i + 1, programs)
    ELSE SuggestedPrograms(refs, i + 1,
            Append(programs, get_found_affiliate_program_object(refs[i])))

\* Variant: the reported count is passed on as received.
TotalCount_unclamped(count_, programs) == count_

\* Lines 149-153 and 353-357: the reported total count.
TotalCount(count_, programs) ==
    IF count_ < Len(programs) THEN Len(programs) ELSE count_

GetSuggestedStarRefBotsQuery_on_result(dialog_id_, packet) ==
    IF fetch_result_is_error(packet)
    THEN GetSuggestedStarRefBotsQuery_on_error(dialog_id_, packet.error)
    ELSE LET programs == SuggestedPrograms(packet.suggested_bots_, 1, <<>>)
         IN  <<OnGetUsers(packet.users_),
               SetValue([total_count |-> TotalCount(packet.count_, programs),
                         programs |-> programs,
                         next_offset |-> packet.next_offset_])>>

\* Variant: an invalid single record is dropped, as in the list queries, and
\* the promise gets the null value.
ConnectStarRefBotQuery_on_result_drops_invalid(dialog_id_, packet) ==
    IF fetch_result_is_error(packet)
    THEN ConnectStarRefBotQuery_on_error(dialog_id_, packet.error)
    ELSE IF Len(packet.connected_bots_) # 1
    THEN ConnectStarRefBotQuery_on_error(dialog_id_,
            StatusError(500, "Receive invalid response"))
    ELSE <<OnGetUsers(packet.users_)>> \o
         IF ~ConnectedBotStarRef_is_valid(packet.connected_bots_[1])
         THEN <<SetValue(NullObject)>>
         ELSE <<SetValue(get_chat_affiliate_program_object(packet.connected_bots_[1]))>>

\* Variant: an invalid single record is only logged; the `return on_error(...)`
\* is missing and the handler returns without touching the promise.
ConnectStarRefBotQuery_on_result_invalid_unsettled(dialog_id_, packet) ==
    IF fetch_result_is_error(packet)
    THEN ConnectStarRefBotQuery_on_error(dialog_id_, packet.error)
    ELSE IF Len(packet.connected_bots_) # 1
    THEN ConnectStarRefBotQuery_on_error(dialog_id_,
            StatusError(500, "Receive invalid response"))
    ELSE <<OnGetUsers(packet.users_)>> \o
         IF ~ConnectedBotStarRef_is_valid(packet.connected_bots_[1])
         THEN <<>>
         ELSE <<SetValue(get_chat_affiliate_program_object(packet.connected_bots_[1]))>>

ConnectStarRefBotQuery_on_result(dialog_id_, packet) ==
    IF fetch_result_is_error(packet)
    THEN ConnectStarRefBotQuery_on_error(dialog_id_, packet.error)
    ELSE IF Len(packet.connected_bots_) # 1
    THEN ConnectStarRefBotQuery_on_error(dialog_id_,
            StatusError(500, "Receive invalid response"))
    ELSE <<OnGetUsers(packet.users_)>> \o
         IF ~ConnectedBotStarRef_is_valid(packet.connected_bots_[1])
         THEN ConnectStarRefBotQuery_on_error(dialog_id_,
                StatusError(500, "Receive invalid response"))
         ELSE <<SetValue(get_chat_affiliate_program_object(packet.connected_bots_[1]))>>

\* Variant: a wrong record count settles the promise directly, without on_error.
EditConnectedStarRefBotQuery_on_result_direct_error(dialog_id_, packet) ==
    IF fetch_result_is_error(packet)
    THEN EditConnectedStarRefBotQuery_on_error(dialog_id_, packet.error)
    ELSE IF Len(packet.connected_bots_) # 1
    THEN <<SetError(StatusError(500, "Receive invalid response"))>>
    ELSE <<OnGetUsers(packet.users_)>> \o
         IF ~ConnectedBotStarRef_is_valid(packet.connected_bots_[1])
         THEN EditConnectedStarRefBotQuery_on_error(dialog_id_,
                StatusError(500, "Receive invalid response"))
         ELSE <<SetValue(get_chat_affiliate_program_object(packet.connected_bots_[1]))>>

EditConnectedStarRefBotQuery_on_result(dialog_id_, packet) ==
    IF fetch_result_is_error(packet)
    THEN EditConnectedStarRefBotQuery_on_error(dialog_id_, packet.error)
    ELSE IF Len(packet.connected_bots_) # 1
    THEN EditConnectedStarRefBotQuery_on_error(dialog_id_,
            StatusError(500, "Receive invalid response"))
    ELSE <<OnGetUsers(packet.users_)>> \o
         IF ~ConnectedBotStarRef_is_valid(packet.connected_bots_[1])
         THEN EditConnectedStarRefBotQuery_on_error(dialog_id_,
                StatusError(500, "Receive invalid response"))
         ELSE <<SetValue(get_chat_affiliate_program_object(packet.connected_bots_[1]))>>

\* Variant: the `return` before on_error for two or more records is missing.
GetConnectedStarRefBotQuery_on_result_fallthrough(dialog_id_, packet) ==
    IF fetch_result_is_error(packet)
    THEN GetConnectedStarRefBotQuery_on_error(dialog_id_, packet.error)
    ELSE IF packet.connected_bots_ = <<>> THEN <<SetValue(NullObject)>>
    ELSE (IF Len(packet.connected_bots_) # 1
          THEN GetConnectedStarRefBotQuery_on_error(dialog_id_,
                    StatusError(500, "Receive invalid response"))
          ELSE <<>>) \o
         <<OnGetUsers(packet.users_)>> \o
         IF ~ConnectedBotStarRef_is_valid(packet.connected_bots_[1])
         THEN GetConnectedStarRefBotQuery_on_error(dialog_id_,
                StatusError(500, "Receive invalid response"))
         ELSE <<SetValue(get_chat_affiliate_program_object(packet.connected_bots_[1]))>>

\* Variant: no special case for an empty list, as in connect and revise.
GetConnectedStarRefBotQuery_on_result_empty_is_error(dialog_id_, packet) ==
    IF fetch_result_is_error(packet)
    THEN GetConnectedStarRefBotQuery_on_error(dialog_id_, packet.error)
    ELSE IF Len(packet.connected_bots_) # 1
    THEN GetConnectedStarRefBotQuery_on_error(dialog_id_,
            StatusError(500, "Receive invalid response"))
    ELSE <<OnGetUsers(packet.users_)>> \o
         IF ~ConnectedBotStarRef_is_valid(packet.connected_bots_[1])
         THEN GetConnectedStarRefBotQuery_on_error(dialog_id_,
                StatusError(500, "Receive invalid response"))
         ELSE <<SetValue(get_chat_affiliate_program_object(packet.connected_bots_[1]))>>

GetConnectedStarRefBotQuery_on_result(dialog_id_, packet) ==
    IF fetch_result_is_error(packet)
    THEN GetConnectedStarRefBotQuery_on_error(dialog_id_, packet.error)
    ELSE IF Len(packet.connected_bots_) # 1
    THEN IF packet.connected_bots_ = <<>>
         THEN <<SetValue(NullObject)>>
         ELSE GetConnectedStarRefBotQuery_on_error(dialog_id_,
                StatusError(500, "Receive invalid response"))
    ELSE <<OnGetUsers(packet.users_)>> \o
         IF ~ConnectedBotStarRef_is_valid(packet.connected_bots_[1])
         THEN GetConnectedStarRefBotQuery_on_error(dialog_id_,
                StatusError(500, "Receive invalid response"))
         ELSE <<SetValue(get_chat_affiliate_program_object(packet.connected_bots_[1]))>>

\* Variant: the separator between date and url is left out.
EncodeOffset_unseparated(ref) == to_decimal(ref.date) \o ref.url

\* Line 344: PSTRING() << ref->date_ << ' ' << ref->url_
EncodeOffset(ref) == to_decimal(ref.date) \o <<" ">> \o ref.url

\* Variant: next_offset is assigned after the validity test, for kept records only.
RECURSIVE ConnectedPrograms_kept_only(_, _, _, _)
ConnectedPrograms_kept_only(refs, i, programs, next_offset) ==
    IF i > Len(refs) THEN [programs |-> programs, next_offset |-> next_offset]
    ELSE IF ~ConnectedBotStarRef_is_valid(refs[i])
    THEN ConnectedPrograms_kept_only(refs, i + 1, programs, next_offset)
    ELSE ConnectedPrograms_kept_only(refs, i + 1,
            Append(programs, get_chat_affiliate_program_object(refs[i])),
            EncodeOffset(refs[i]))

\* Lines 341-351: the loop over ptr->connected_bots_.
RECURSIVE ConnectedPrograms(_, _, _, _)
ConnectedPrograms(refs, i, programs, next_offset) ==
    IF i > Len(refs) THEN [programs |-> programs, next_offset |-> next_offset]
    ELSE IF ~ConnectedBotStarRef_is_valid(refs[i])
    THEN ConnectedPrograms(refs, i + 1, programs, EncodeOffset(refs[i]))
    ELSE ConnectedPrograms(refs, i + 1,
            Append(programs, get_chat_affiliate_program_object(refs[i])),
            EncodeOffset(refs[i]))

GetConnectedStarRefBotsQuery_on_result(dialog_id_, packet) ==
    IF fetch_result_is_error(packet)
    THEN GetConnectedStarRefBotsQuery_on_error(dialog_id_, packet.error)
    ELSE LET loop == ConnectedPrograms(packet.connected_bots_, 1, <<>>, <<>>)
         IN  <<OnGetUsers(packet.users_),
               SetValue([total_count |-> TotalCount(packet.count_, loop.programs),
                         programs |-> loop.programs,
                         next_offset |-> loop.next_offset])>>

(***************************************************************************)
(* State.  A call is one invocation of a facade operation together with    *)
(* the handler it may create: the operation, its arguments, the handler's  *)
(* members and the log of everything done for it so far.                   *)
(***************************************************************************)
NoHandler == [class |-> "none", dialog_id_ |-> NoDialogId, user_id_ |-> 0]

NoCall == [op |-> "none", args |-> <<>>, handler |-> NoHandler, log |-> <<>>]

Init ==
    /\ calls = [c \in CallIds |-> NoCall]
    /\ users = InitialUsers
    /\ dialog_errors = {}
    /\ created_dialogs = {}
    /\ referral_infos = {}
    /\ crashed = FALSE
    /\ parent_ = TRUE

Events(log, kinds) == SelectSeq(log, LAMBDA e : e.ev \in kinds)

Has(log, kinds) == \E i \in 1..Len(log) : log[i].ev \in kinds

\* The handler after create_handler<class>() and the assignments of send.
RECURSIVE HandlerAfter(_, _, _)
HandlerAfter(handler, effects, i) ==
    IF i > Len(effects) THEN handler
    ELSE LET e == effects[i]
         IN  HandlerAfter(
                CASE e.ev = "create_handler" -> [NoHandler EXCEPT !.class = e.class]
                  [] e.ev = "assign" /\ e.member = "dialog_id_" ->
                        [handler EXCEPT !.dialog_id_ = e.value]
                  [] e.ev = "assign" /\ e.member = "user_id_" ->
                        [handler EXCEPT !.user_id_ = e.value]
                  [] OTHER -> handler,
                effects, i + 1)

\* The effects take place, in order, within one step of the actor.
Apply(c, op, args, effects) ==
    /\ calls' = [calls EXCEPT ![c] =
                    [op |-> op, args |-> args,
                     handler |-> HandlerAfter(calls[c].handler, effects, 1),
                     log |-> calls[c].log \o effects]]
    /\ users' = users \cup UNION {effects[i].users :
                    i \in {j \in 1..Len(effects) : effects[j].ev = "on_get_users"}}
    /\ dialog_errors' = dialog_errors \cup
            {<<effects[i].dialog_id, effects[i].status>> :
                i \in {j \in 1..Len(effects) : effects[j].ev = "on_get_dialog_error"}}
    /\ created_dialogs' = created_dialogs \cup
            {effects[i].dialog_id :
                i \in {j \in 1..Len(effects) : effects[j].ev = "force_create_dialog"}}
    /\ referral_infos' = referral_infos \cup
            {<<effects[i].user_id, effects[i].info>> :
                i \in {j \in 1..Len(effects) :
                        effects[j].ev = "on_update_user_referral_program_info"}}
    /\ crashed' = (crashed \/ Has(effects, {"fatal"}))
    /\ UNCHANGED parent_

\* Call slot c is free for a request handler of the client to use.
CanInvoke(c) == ~crashed /\ parent_ /\ calls[c].op = "none"

\* The transport owes the handler of call c its one outcome.
AwaitsOutcome(c, class) ==
    /\ ~crashed
    /\ parent_
    /\ calls[c].handler.class = class
    /\ Has(calls[c].log, {"send_query"})
    /\ ~Has(calls[c].log, {"on_result", "on_error"})

OnResult(packet) == [ev |-> "on_result", packet |-> packet]

OnError(status) == [ev |-> "on_error", status |-> status]

Deliver(c, outcome, effects) ==
    Apply(c, calls[c].op, calls[c].args, <<outcome>> \o effects)

(***************************************************************************)
(* Actions: the facade operations.  The sets are the inputs tried.         *)
(***************************************************************************)
Call_set_dialog_referral_program(c, dialogs, parameter_set) ==
    /\ CanInvoke(c)
    /\ \E dialog_id \in dialogs, parameters \in parameter_set :
        Apply(c, "set_dialog_referral_program",
               [dialog_id |-> dialog_id, parameters |-> parameters],
               set_dialog_referral_program(dialog_id, parameters))

Call_search_dialog_referral_program(c, usernames, referrals) ==
    /\ CanInvoke(c)
    /\ \E username \in usernames, referral \in referrals :
        Apply(c, "search_dialog_referral_program",
               [username |-> username, referral |-> referral],
               search_dialog_referral_program(username, referral))

Call_search_referral_programs(c, dialogs, sort_orders, offsets, limits) ==
    /\ CanInvoke(c)
    /\ \E dialog_id \in dialogs, sort_order \in sort_orders,
       offset \in offsets, limit \in limits :
        Apply(c, "search_referral_programs",
               [dialog_id |-> dialog_id, sort_order |-> sort_order,
                offset |-> offset, limit |-> limit],
               search_referral_programs(dialog_id, sort_order, offset, limit))

Call_connect_referral_program(c, dialogs, bots) ==
    /\ CanInvoke(c)
    /\ \E dialog_id \in dialogs, bot_user_id \in bots :
        Apply(c, "connect_referral_program",
               [dialog_id |-> dialog_id, bot_user_id |-> bot_user_id],
               connect_referral_program(dialog_id, bot_user_id))

Call_revoke_referral_program(c, dialogs, urls) ==
    /\ CanInvoke(c)
    /\ \E dialog_id \in dialogs, url \in urls :
        Apply(c, "revoke_referral_program",
               [dialog_id |-> dialog_id, url |-> url],
               revoke_referral_program(dialog_id, url))

Call_get_connected_referral_program(c, dialogs, bots) ==
    /\ CanInvoke(c)
    /\ \E dialog_id \in dialogs, bot_user_id \in bots :
        Apply(c, "get_connected_referral_program",
               [dialog_id |-> dialog_id, bot_user_id |-> bot_user_id],
               get_connected_referral_program(dialog_id, bot_user_id))

Call_get_connected_referral_programs(c, dialogs, offsets, limits) ==
    /\ CanInvoke(c)
    /\ \E dialog_id \in dialogs, offset \in offsets, limit \in limits :
        Apply(c, "get_connected_referral_programs",
               [dialog_id |-> dialog_id, offset |-> offset, limit |-> limit],
               get_connected_referral_programs(dialog_id, offset, limit))

(***************************************************************************)
(* ReferralProgramManager::tear_down: the actor stops and gives up its      *)
(* reference to the parent.  The session is closing: no request is taken   *)
(* any more and no outcome reaches a handler.                              *)
(***************************************************************************)
tear_down ==
    /\ parent_
    /\ parent_' = FALSE
    /\ UNCHANGED <<calls, users, dialog_errors, created_dialogs, referral_infos, crashed>>

(***************************************************************************)
(* Actions: the transport delivers the outcome of a query to its handler,  *)
(* a packet to on_result or a status to on_error.                          *)
(***************************************************************************)
UpdateStarRefProgramQuery_Result(c, packets) ==
    /\ AwaitsOutcome(c, "UpdateStarRefProgramQuery")
    /\ \E packet \in packets :
        Deliver(c, OnResult(packet),
                UpdateStarRefProgramQuery_on_result(calls[c].handler.user_id_, packet))

UpdateStarRefProgramQuery_Error(c, statuses) ==
    /\ AwaitsOutcome(c, "UpdateStarRefProgramQuery")
    /\ \E status \in statuses :
        Deliver(c, OnError(status), UpdateStarRefProgramQuery_on_error(status))

ResolveReferralProgramQuery_Result(c, packets) ==
    /\ AwaitsOutcome(c, "ResolveReferralProgramQuery")
    /\ \E packet \in packets :
        Deliver(c, OnResult(packet), ResolveReferralProgramQuery_on_result(users, packet))

ResolveReferralProgramQuery_Error(c, statuses) ==
    /\ AwaitsOutcome(c, "ResolveReferralProgramQuery")
    /\ \E status \in statuses :
        Deliver(c, OnError(status), ResolveReferralProgramQuery_on_error(status))

GetSuggestedStarRefBotsQuery_Result(c, packets) ==
    /\ AwaitsOutcome(c, "GetSuggestedStarRefBotsQuery")
    /\ \E packet \in packets :
        Deliver(c, OnResult(packet),
                GetSuggestedStarRefBotsQuery_on_result(calls[c].handler.dialog_id_, packet))

GetSuggestedStarRefBotsQuery_Error(c, statuses) ==
    /\ AwaitsOutcome(c, "GetSuggestedStarRefBotsQuery")
    /\ \E status \in statuses :
        Deliver(c, OnError(status),
                GetSuggestedStarRefBotsQuery_on_error(calls[c].handler.dialog_id_, status))

ConnectStarRefBotQuery_Result(c, packets) ==
    /\ AwaitsOutcome(c, "ConnectStarRefBotQuery")
    /\ \E packet \in packets :
        Deliver(c, OnResult(packet),
                ConnectStarRefBotQuery_on_result(calls[c].handler.dialog_id_, packet))

ConnectStarRefBotQuery_Error(c, statuses) ==
    /\ AwaitsOutcome(c, "ConnectStarRefBotQuery")
    /\ \E status \in statuses :
        Deliver(c, OnError(status),
                ConnectStarRefBotQuery_on_error(calls[c].handler.dialog_id_, status))

EditConnectedStarRefBotQuery_Result(c, packets) ==
    /\ AwaitsOutcome(c, "EditConnectedStarRefBotQuery")
    /\ \E packet \in packets :
        Deliver(c, OnResult(packet),
                EditConnectedStarRefBotQuery_on_result(calls[c].handler.dialog_id_, packet))

EditConnectedStarRefBotQuery_Error(c, statuses) ==
    /\ AwaitsOutcome(c, "EditConnectedStarRefBotQuery")
    /\ \E status \in statuses :
        Deliver(c, OnError(status),
                EditConnectedStarRefBotQuery_on_error(calls[c].handler.dialog_id_, status))

GetConnectedStarRefBotQuery_Result(c, packets) ==
    /\ AwaitsOutcome(c, "GetConnectedStarRefBotQuery")
    /\ \E packet \in packets :
        Deliver(c, OnResult(packet),
                GetConnectedStarRefBotQuery_on_result(calls[c].handler.dialog_id_, packet))

GetConnectedStarRefBotQuery_Error(c, statuses) ==
    /\ AwaitsOutcome(c, "GetConnectedStarRefBotQuery")
    /\ \E status \in statuses :
        Deliver(c, OnError(status),
                GetConnectedStarRefBotQuery_on_error(calls[c].handler.dialog_id_, status))

GetConnectedStarRefBotsQuery_Result(c, packets) ==
    /\ AwaitsOutcome(c, "GetConnectedStarRefBotsQuery")
    /\ \E packet \in packets :
        Deliver(c, OnResult(packet),
                GetConnectedStarRefBotsQuery_on_result(calls[c].handler.dialog_id_, packet))

GetConnectedStarRefBotsQuery_Error(c, statuses) ==
    /\ AwaitsOutcome(c, "GetConnectedStarRefBotsQuery")
    /\ \E status \in statuses :
        Deliver(c, OnError(status),
                GetConnectedStarRefBotsQuery_on_error(calls[c].handler.dialog_id_, status))

(***************************************************************************)
(* Inputs.                                                                 *)
(***************************************************************************)
\* A negative limit, zero and a positive one.
Limits == {0 - MaxLimit, 0, MaxLimit}

SortOrders == {"Profitability", "Date", "Revenue"}

\* The sentinel, two valid values, and one invalid in each field or in both.
ParameterSet ==
    {DefaultParameters,
     ReferralProgramParameters(10, 0), ReferralProgramParameters(10, 12),
     ReferralProgramParameters(1000, 12), ReferralProgramParameters(0, 12),
     ReferralProgramParameters(10, 37)}

BotUserIds == {2, 6}

Url_u == <<"u">>

\* What the transport reports when the request fails.
RemoteStatuses ==
    {StatusError(400, "CHAT_ADMIN_REQUIRED"), StatusError(500, "Request aborted")}

\* A packet fetch_result cannot deserialize.
FetchError == [ok |-> FALSE, error |-> StatusError(500, "Failed to fetch result")]

UpdatePackets == {FetchError, [ok |-> TRUE, info |-> "starRefProgram"]}

ResolvePackets ==
    {FetchError,
     [ok |-> TRUE, users_ |-> {2}, chats_ |-> {}, peer |-> DialogId("User", 2)],
     [ok |-> TRUE, users_ |-> {6}, chats_ |-> {}, peer |-> DialogId("User", 6)],
     [ok |-> TRUE, users_ |-> {}, chats_ |-> {}, peer |-> DialogId("User", 6)],
     [ok |-> TRUE, users_ |-> {}, chats_ |-> {1}, peer |-> DialogId("Channel", 1)]}

RECURSIVE ListsUpTo(_, _)
ListsUpTo(elements, n) ==
    IF n = 0 THEN {<<>>}
    ELSE LET shorter == ListsUpTo(elements, n - 1)
         IN  shorter \cup {Append(l, e) : l \in shorter, e \in elements}

\* Raw records: a valid one, one without bot, one without url.
ConnectedRefs ==
    {[bot_id |-> 2, url |-> Url_u, date |-> 5],
     [bot_id |-> 0, url |-> Url_u, date |-> 6],
     [bot_id |-> 2, url |-> <<>>, date |-> 7]}

SuggestedRefs == {[bot_id |-> 2], [bot_id |-> 4], [bot_id |-> 0]}

\* No record, each single record, and one list of two records.
SinglePackets ==
    {FetchError} \cup
    {[ok |-> TRUE, users_ |-> {2}, connected_bots_ |-> refs] :
        refs \in ListsUpTo(ConnectedRefs, 1) \cup
                 {<<[bot_id |-> 2, url |-> Url_u, date |-> 5],
                    [bot_id |-> 4, url |-> Url_u, date |-> 6]>>}}

SuggestedPackets(max_records, counts, next_offsets) ==
    {FetchError} \cup
    {[ok |-> TRUE, users_ |-> {2}, suggested_bots_ |-> refs, count_ |-> count,
      next_offset_ |-> next_offset] :
        refs \in ListsUpTo(SuggestedRefs, max_records), count \in counts,
        next_offset \in next_offsets}

ConnectedPackets(records, max_records, counts) ==
    {FetchError} \cup
    {[ok |-> TRUE, users_ |-> {2}, connected_bots_ |-> refs, count_ |-> count] :
        refs \in ListsUpTo(records, max_records), count \in counts}

(***************************************************************************)
(* Spec: every operation on every kind of target, MaxCalls calls in        *)
(* flight, outcomes delivered in any order.                                *)
(***************************************************************************)
CallStep(c) ==
    \/ Call_set_dialog_referral_program(c, DialogIds, ParameterSet)
    \/ Call_search_dialog_referral_program(c, {Url_u}, {Url_u})
    \/ Call_search_referral_programs(c, DialogIds, {"Profitability"}, {<<>>}, Limits)
    \/ Call_search_referral_programs(c, {DialogId("Channel", 1)}, SortOrders, {Url_u},
                                     {MaxLimit})
    \/ Call_connect_referral_program(c, DialogIds, BotUserIds)
    \/ Call_revoke_referral_program(c, DialogIds, {Url_u})
    \/ Call_get_connected_referral_program(c, DialogIds, BotUserIds)
    \/ Call_get_connected_referral_programs(c, DialogIds, {<<>>, <<"5", " ", "u">>}, Limits)

ResultStep(c) ==
    \/ UpdateStarRefProgramQuery_Result(c, UpdatePackets)
    \/ ResolveReferralProgramQuery_Result(c, ResolvePackets)
    \/ GetSuggestedStarRefBotsQuery_Result(c, SuggestedPackets(1, {0}, {Url_u}))
    \/ ConnectStarRefBotQuery_Result(c, SinglePackets)
    \/ EditConnectedStarRefBotQuery_Result(c, SinglePackets)
    \/ GetConnectedStarRefBotQuery_Result(c, SinglePackets)
    \/ GetConnectedStarRefBotsQuery_Result(c, ConnectedPackets(ConnectedRefs, 1, {0}))

ErrorStep(c) ==
    \/ UpdateStarRefProgramQuery_Error(c, RemoteStatuses)
    \/ ResolveReferralProgramQuery_Error(c, RemoteStatuses)
    \/ GetSuggestedStarRefBotsQuery_Error(c, RemoteStatuses)
    \/ ConnectStarRefBotQuery_Error(c, RemoteStatuses)
    \/ EditConnectedStarRefBotQuery_Error(c, RemoteStatuses)
    \/ GetConnectedStarRefBotQuery_Error(c, RemoteStatuses)
    \/ GetConnectedStarRefBotsQuery_Error(c, RemoteStatuses)

Next == \E c \in CallIds : CallStep(c) \/ ResultStep(c) \/ ErrorStep(c)

Spec == Init /\ [][Next]_vars

(***************************************************************************)
(* What can be read off a call.                                            *)
(***************************************************************************)
Invoked(c) == calls[c].op # "none"

\* Every promise_.set_value / set_error done for the call, in order.
Settlements(c) == Events(calls[c].log, {"set_value", "set_error"})

\* Every request handed to the transport for the call, in order.
Queries(c) == Events(calls[c].log, {"send_query"})

Delivered(c) == Has(calls[c].log, {"on_result", "on_error"})

\* The facade returned without dispatching (and without aborting).
RejectedLocally(c) == Invoked(c) /\ ~Has(calls[c].log, {"send_query", "fatal"})

AdapterState(c) ==
    IF ~Has(calls[c].log, {"create_handler"}) THEN "None"
    ELSE IF Settlements(c) = <<>>
    THEN IF Queries(c) = <<>> THEN "Created" ELSE "Sent"
    ELSE IF Settlements(c)[Len(Settlements(c))].ev = "set_value" THEN "Resolved"
    ELSE "Failed"

SettledWithError(c, status) == Settlements(c) = <<SetError(status)>>

TargetScopedOps ==
    {"search_referral_programs", "connect_referral_program", "revoke_referral_program",
     "get_connected_referral_program", "get_connected_referral_programs"}

\* The target of a call passes check_referable_dialog_id.
Referable(dialog_id) == check_referable_dialog_id(dialog_id) = StatusOK

(***************************************************************************)
(* C1: for every operation and every sequence of events the promise is     *)
(* settled at most once, and exactly once as soon as the call was rejected *)
(* locally or the transport delivered its outcome (also when on_result     *)
(* hands over to on_error); an adapter that is Resolved or Failed stays    *)
(* so.                                                                     *)
(***************************************************************************)
C1_SettledOnce ==
    \A c \in CallIds :
        /\ Len(Settlements(c)) <= 1
        /\ (RejectedLocally(c) \/ Delivered(c)) => Len(Settlements(c)) = 1
        /\ AdapterState(c) = "Sent" => ~Delivered(c)

C1_TerminalStays ==
    \A c \in CallIds :
        AdapterState(c) \in {"Resolved", "Failed"} =>
            /\ AdapterState(c)' = AdapterState(c)
            /\ Settlements(c)' = Settlements(c)

C1_ExactlyOnce == [](C1_SettledOnce) /\ [][C1_TerminalStays]_vars

\* on_result found two records, went to on_error, and the promise holds that one error.
C1_Witness ==
    \E c \in CallIds :
        /\ calls[c].handler.class = "GetConnectedStarRefBotQuery"
        /\ Has(calls[c].log, {"on_result"})
        /\ Has(calls[c].log, {"on_get_dialog_error"})
        /\ SettledWithError(c, StatusError(500, "Receive invalid response"))
        /\ AdapterState(c) = "Failed"

(***************************************************************************)
(* C2: a call dispatches at most one request: exactly one when every local *)
(* check and the identity resolution succeed, none when get_input_user     *)
(* fails in set program, connect program or get single connection; then    *)
(* the promise holds the resolution error and no handler was created.      *)
(***************************************************************************)
\* The checks that precede get_input_user in the call passed.
ReachesResolution(c) ==
    CASE calls[c].op = "set_dialog_referral_program" ->
            /\ Parameters_is_valid(calls[c].args.parameters)
                  \/ calls[c].args.parameters = DefaultParameters
            /\ calls[c].args.dialog_id.type = "User"
            /\ get_bot_data(calls[c].args.dialog_id.id).ok
            /\ get_bot_data(calls[c].args.dialog_id.id).can_be_edited
      [] calls[c].op \in {"connect_referral_program", "get_connected_referral_program"} ->
            Referable(calls[c].args.dialog_id)
      [] OTHER -> FALSE

\* The user whose wire reference the call needs.
ResolvedUser(c) ==
    IF calls[c].op = "set_dialog_referral_program"
    THEN calls[c].args.dialog_id.id
    ELSE calls[c].args.bot_user_id

\* Every local check of the call passes.
LocalChecksPass(c) ==
    CASE calls[c].op = "search_dialog_referral_program" -> TRUE
      [] calls[c].op \in {"search_referral_programs", "get_connected_referral_programs"} ->
            Referable(calls[c].args.dialog_id) /\ calls[c].args.limit > 0
      [] calls[c].op = "revoke_referral_program" -> Referable(calls[c].args.dialog_id)
      [] calls[c].op \in {"set_dialog_referral_program", "connect_referral_program",
                          "get_connected_referral_program"} ->
            ReachesResolution(c) /\ get_input_user(ResolvedUser(c)).ok
      [] OTHER -> FALSE

C2_OneDispatch ==
    \A c \in CallIds :
        Invoked(c) =>
            /\ Len(Queries(c)) <= 1
            /\ LocalChecksPass(c) => Len(Queries(c)) = 1
            /\ (ReachesResolution(c) /\ ~get_input_user(ResolvedUser(c)).ok) =>
                    /\ Queries(c) = <<>>
                    /\ SettledWithError(c, get_input_user(ResolvedUser(c)).status)
                    /\ calls[c].handler = NoHandler
                    /\ ~Has(calls[c].log, {"create_handler"})

C2_Witness ==
    \E c \in CallIds :
        /\ calls[c].op = "connect_referral_program"
        /\ ReachesResolution(c)
        /\ ~get_input_user(calls[c].args.bot_user_id).ok
        /\ Queries(c) = <<>>
        /\ Len(Settlements(c)) = 1

(***************************************************************************)
(* C3: a Chat target is rejected by every operation that has a target and  *)
(* nothing is dispatched; a Channel target is accepted only if it is a     *)
(* broadcast channel the caller can post in; a User target only if it is   *)
(* the caller or a bot whose data the caller can edit.                     *)
(***************************************************************************)
HasTarget(c) == Invoked(c) /\ calls[c].op # "search_dialog_referral_program"

Rejected(c) ==
    /\ Queries(c) = <<>>
    /\ Len(Settlements(c)) = 1
    /\ Settlements(c)[1].ev = "set_error"

C3_Eligibility ==
    \A c \in CallIds :
        HasTarget(c) =>
            LET dialog_id == calls[c].args.dialog_id
            IN  /\ dialog_id.type = "Chat" => Rejected(c)
                /\ (dialog_id.type = "Channel" /\ ~Rejected(c)) =>
                        is_broadcast_channel(dialog_id.id) /\ can_post_messages(dialog_id.id)
                /\ (dialog_id.type = "User" /\ ~Rejected(c)) =>
                        \/ dialog_id = get_my_dialog_id
                        \/ get_bot_data(dialog_id.id).ok
                              /\ get_bot_data(dialog_id.id).can_be_edited

\* A broadcast channel without post rights was turned away.
C3_Witness ==
    \E c \in CallIds :
        /\ calls[c].op = "revoke_referral_program"
        /\ calls[c].args.dialog_id = DialogId("Channel", 2)
        /\ Rejected(c)

(***************************************************************************)
(* C4: in every call of resolve program, search suggested programs,        *)
(* connect program, revise connection, get single connection or list       *)
(* connections, a dispatch is preceded by a successful run of              *)
(* check_referable_dialog_id in the same call.                             *)
(***************************************************************************)
ValidatedBeforeDispatch(c) ==
    \E i \in 1..Len(calls[c].log) :
        /\ calls[c].log[i].ev = "check_referable_dialog_id"
        /\ calls[c].log[i].status = StatusOK
        /\ \A j \in 1..Len(calls[c].log) :
                calls[c].log[j].ev \in {"create_handler", "send_query"} => i < j

\* The claim as stated, resolve program included.
C4_AsStated ==
    \A c \in CallIds :
        (/\ calls[c].op \in TargetScopedOps \cup {"search_dialog_referral_program"}
         /\ Queries(c) # <<>>) => ValidatedBeforeDispatch(c)

\* Amended: the five operations that have a target validate it before they
\* dispatch; resolve program has none and dispatches without the validator.
C4_ValidatorFirst ==
    \A c \in CallIds :
        /\ (calls[c].op \in TargetScopedOps /\ Queries(c) # <<>>) =>
                /\ ValidatedBeforeDispatch(c)
                /\ calls[c].log[1] = Validated(calls[c].args.dialog_id, StatusOK)
                /\ Referable(calls[c].args.dialog_id)
        /\ calls[c].op = "search_dialog_referral_program" =>
                /\ Len(Queries(c)) = 1
                /\ ~Has(calls[c].log, {"check_referable_dialog_id"})

C4_Witness ==
    \E c \in CallIds :
        /\ calls[c].op = "revoke_referral_program"
        /\ Queries(c) # <<>>
        /\ ValidatedBeforeDispatch(c)

(***************************************************************************)
(* C5: set program with the zero sentinel (commission 0, duration 0) is    *)
(* never rejected by the validity predicate, only by the checks of the     *)
(* target; with parameters that are not the sentinel and fail the          *)
(* predicate it settles with 'Invalid affiliate parameters specified' and  *)
(* dispatches nothing.                                                     *)
(***************************************************************************)
InvalidParameters == StatusError(400, "Invalid affiliate parameters specified")

\* The errors the checks of the target of set program can produce.
TargetErrors(dialog_id) ==
    IF dialog_id.type = "User"
    THEN {get_bot_data(dialog_id.id).status, get_input_user(dialog_id.id).status,
          StatusError(400, "The bot isn't owned")} \ {StatusOK}
    ELSE {StatusError(400, "The chat can't have affiliate program")}

C5_Parameters ==
    \A c \in CallIds :
        calls[c].op = "set_dialog_referral_program" =>
            LET parameters == calls[c].args.parameters
            IN  /\ parameters = DefaultParameters =>
                    /\ ~(RejectedLocally(c) /\ SettledWithError(c, InvalidParameters))
                    /\ LocalChecksPass(c) =>
                            /\ Len(Queries(c)) = 1
                            /\ ~Delivered(c) => Settlements(c) = <<>>
                    /\ ~LocalChecksPass(c) =>
                            /\ Rejected(c)
                            /\ Settlements(c)[1].status \in TargetErrors(calls[c].args.dialog_id)
                /\ (parameters # DefaultParameters /\ ~Parameters_is_valid(parameters)) =>
                    /\ SettledWithError(c, InvalidParameters)
                    /\ Queries(c) = <<>>
                    /\ ~Has(calls[c].log, {"create_handler"})

\* The sentinel went out to the server for an owned bot.
C5_Witness ==
    \E c \in CallIds :
        /\ calls[c].op = "set_dialog_referral_program"
        /\ calls[c].args.parameters = DefaultParameters
        /\ Len(Queries(c)) = 1
        /\ Queries(c)[1].query.commission_permille = 0

(***************************************************************************)
(* C6: search suggested programs and list connections with a limit <= 0    *)
(* dispatch nothing, and (the target being eligible) settle with the       *)
(* error 400 'Limit must be positive'.                                     *)
(***************************************************************************)
LimitMustBePositive == StatusError(400, "Limit must be positive")

C6_Limit ==
    \A c \in CallIds :
        (/\ calls[c].op \in {"search_referral_programs", "get_connected_referral_programs"}
         /\ calls[c].args.limit <= 0) =>
            /\ Queries(c) = <<>>
            /\ ~Has(calls[c].log, {"create_handler"})
            /\ Referable(calls[c].args.dialog_id) => SettledWithError(c, LimitMustBePositive)

C6_Witness ==
    \E c \in CallIds :
        /\ calls[c].op = "search_referral_programs"
        /\ calls[c].args.limit = 0
        /\ SettledWithError(c, LimitMustBePositive)
        /\ Queries(c) = <<>>

(***************************************************************************)
(* SpecCursor: list connections with every short offset string and the     *)
(* documented one, answered by one-record pages of every date and url.     *)
(***************************************************************************)
CursorAlphabet == {"1", "7", " ", "u", "-"}

\* "1700000000 https://t.me/bot"
ScenarioOffset == <<"1", "7", "0", "0", "0", "0", "0", "0", "0", "0", " ">> \o Str_t_me_bot

CursorOffsets == StringsUpTo(CursorAlphabet, MaxOffsetLen) \cup {ScenarioOffset}

CursorDates == (0..MaxDate) \cup {1700000000, 2147483647}

CursorUrls == {<<>>, Url_u, <<"u", " ", "v">>, <<" ", "u">>, Str_t_me_bot}

CursorRefs ==
    {[bot_id |-> 2, url |-> url, date |-> date] : url \in CursorUrls, date \in CursorDates}

CursorDialogs == {DialogId("Channel", 1), DialogId("Chat", 1)}

NextCursor ==
    \/ Call_get_connected_referral_programs(1, CursorDialogs, CursorOffsets, Limits)
    \/ GetConnectedStarRefBotsQuery_Result(1, ConnectedPackets(CursorRefs, 1, {1}))

SpecCursor == Init /\ [][NextCursor]_vars

(***************************************************************************)
(* SpecList: the two list operations, answered by every list of up to      *)
(* MaxRecords raw records with every total count up to MaxCount.           *)
(***************************************************************************)
NextList ==
    \/ Call_search_referral_programs(1, {DialogId("Channel", 1)}, {"Date"}, {<<>>}, {1})
    \/ Call_get_connected_referral_programs(1, {DialogId("Channel", 1)}, {<<>>}, {1})
    \/ GetSuggestedStarRefBotsQuery_Result(1,
            SuggestedPackets(MaxRecords, 0..MaxCount, {<<>>, Url_u}))
    \/ GetConnectedStarRefBotsQuery_Result(1,
            ConnectedPackets(ConnectedRefs, MaxRecords, 0..MaxCount))

SpecList == Init /\ [][NextList]_vars

\* The packet on_result was called with, and the value the promise got.
ResultPacket(c) == Events(calls[c].log, {"on_result"})[1].packet

SettledValue(c) == Settlements(c)[1].value

GotResult(c) == Has(calls[c].log, {"on_result"}) /\ ResultPacket(c).ok

IsListCall(c) == calls[c].op = "get_connected_referral_programs"

(***************************************************************************)
(* C7: list connections with a malformed cursor (non-empty, its part       *)
(* before the first space not an integer) is a decode error surfaced as a  *)
(* validation error, and nothing is dispatched.                            *)
(***************************************************************************)
IsInteger(s) ==
    LET body == IF s # <<>> /\ s[1] = "-" THEN Tail(s) ELSE s
    IN  body # <<>> /\ \A i \in 1..Len(body) : is_digit(body[i])

Malformed(offset) == offset # <<>> /\ ~IsInteger(split(offset).first)

\* The claim as stated.
C7_AsStated ==
    \A c \in CallIds :
        (IsListCall(c) /\ Malformed(calls[c].args.offset)) => Rejected(c)

\* What send does instead: a malformed cursor is never an error.  With an
\* eligible target and a positive limit the request goes out, the offset flag
\* set and the url the part after the first space; the only local rejections
\* are those of the target and of the limit.
C7_Lenient ==
    \A c \in CallIds :
        (IsListCall(c) /\ Malformed(calls[c].args.offset)) =>
            LET args == calls[c].args
            IN  /\ (Referable(args.dialog_id) /\ args.limit > 0) =>
                    /\ Len(Queries(c)) = 1
                    /\ Queries(c)[1].query.flags = {"OFFSET_DATE_MASK"}
                    /\ Queries(c)[1].query.offset_link = split(args.offset).second
                    /\ ~Delivered(c) => Settlements(c) = <<>>
                /\ RejectedLocally(c) =>
                    Settlements(c) \in
                        {<<SetError(check_referable_dialog_id(args.dialog_id))>>,
                         <<SetError(LimitMustBePositive)>>}

\* The offset "u 1" went out, flagged, with url "1".
C7_Witness ==
    \E c \in CallIds :
        /\ IsListCall(c)
        /\ calls[c].args.offset = <<"u", " ", "1">>
        /\ Len(Queries(c)) = 1
        /\ Queries(c)[1].query.flags = {"OFFSET_DATE_MASK"}
        /\ Queries(c)[1].query.offset_link = <<"1">>

(***************************************************************************)
(* C8: for every date >= 0 and every url, the next offset on_result builds *)
(* from (date, url) decodes, by the decoding of send, to exactly           *)
(* (date, url); the empty offset decodes to date 0 and the empty url.      *)
(***************************************************************************)
C8_RoundTrip ==
    \A c \in CallIds :
        IsListCall(c) =>
            /\ (GotResult(c) /\ ResultPacket(c).connected_bots_ # <<>>) =>
                    LET refs == ResultPacket(c).connected_bots_
                        last == refs[Len(refs)]
                    IN  last.date >= 0 =>
                            /\ Len(Settlements(c)) = 1
                            /\ DecodeOffset(SettledValue(c).next_offset) =
                                    [date |-> last.date, link |-> last.url,
                                     flags |-> {"OFFSET_DATE_MASK"}]
            /\ (calls[c].args.offset = <<>> /\ Queries(c) # <<>>) =>
                    /\ Queries(c)[1].query.offset_date = 0
                    /\ Queries(c)[1].query.offset_link = <<>>

\* A page whose last record has a url with a space in it and a two-digit date.
C8_Witness ==
    \E c \in CallIds :
        /\ IsListCall(c)
        /\ GotResult(c)
        /\ ResultPacket(c).connected_bots_ = <<[bot_id |-> 2, url |-> <<"u", " ", "v">>, date |-> 10]>>
        /\ SettledValue(c).next_offset = <<"1", "0", " ", "u", " ", "v">>

(***************************************************************************)
(* C9: list connections forwards the decoded cursor into the request: for  *)
(* the offset "<date> <url>" the request carries offset date = date,       *)
(* offset url = url and the offset flag; for the empty offset date 0, the  *)
(* empty url and no flag.                                                  *)
(***************************************************************************)
C9_Forwarded ==
    \A c \in CallIds :
        (IsListCall(c) /\ Queries(c) # <<>>) =>
            LET query == Queries(c)[1].query
                offset == calls[c].args.offset
            IN  /\ query.peer = calls[c].args.dialog_id
                /\ query.limit = calls[c].args.limit
                /\ offset = <<>> =>
                        /\ query.offset_date = 0
                        /\ query.offset_link = <<>>
                        /\ query.flags = {}
                /\ \A date \in (0..(10 * MaxDate)) \cup {1700000000} :
                        LET n == Len(to_decimal(date))
                        IN  (/\ Len(offset) > n
                             /\ SubSeq(offset, 1, n + 1) = to_decimal(date) \o <<" ">>) =>
                                \* offset = "<date> <url>", url the rest
                                /\ query.offset_date = date
                                /\ query.offset_link = SubSeq(offset, n + 2, Len(offset))
                                /\ query.flags = {"OFFSET_DATE_MASK"}

\* "1700000000 https://t.me/bot" went out as (1700000000, "https://t.me/bot").
C9_Witness ==
    \E c \in CallIds :
        /\ IsListCall(c)
        /\ calls[c].args.offset = ScenarioOffset
        /\ Len(Queries(c)) = 1
        /\ Queries(c)[1].query.offset_date = 1700000000
        /\ Queries(c)[1].query.offset_link = Str_t_me_bot
        /\ Queries(c)[1].query.flags = {"OFFSET_DATE_MASK"}

(***************************************************************************)
(* C10: in both list operations, a response that reports total count T and *)
(* carries N raw records of which K are valid settles the promise with     *)
(* exactly those K records, converted, in raw order, and with total count  *)
(* max(T, K); an invalid record never makes the result an error.           *)
(***************************************************************************)
\* The objects of the valid records of a response, in raw order.
Kept(c) ==
    IF calls[c].handler.class = "GetSuggestedStarRefBotsQuery"
    THEN LET valid == SelectSeq(ResultPacket(c).suggested_bots_, SuggestedBotStarRef_is_valid)
         IN  [i \in 1..Len(valid) |-> get_found_affiliate_program_object(valid[i])]
    ELSE LET valid == SelectSeq(ResultPacket(c).connected_bots_, ConnectedBotStarRef_is_valid)
         IN  [i \in 1..Len(valid) |-> get_chat_affiliate_program_object(valid[i])]

RawRecords(c) ==
    IF calls[c].handler.class = "GetSuggestedStarRefBotsQuery"
    THEN ResultPacket(c).suggested_bots_
    ELSE ResultPacket(c).connected_bots_

Max(a, b) == IF a < b THEN b ELSE a

C10_TotalCount ==
    \A c \in CallIds :
        (/\ calls[c].handler.class \in
                {"GetSuggestedStarRefBotsQuery", "GetConnectedStarRefBotsQuery"}
         /\ GotResult(c)) =>
            /\ Len(Settlements(c)) = 1
            /\ Settlements(c)[1].ev = "set_value"
            /\ SettledValue(c).programs = Kept(c)
            /\ SettledValue(c).total_count = Max(ResultPacket(c).count_, Len(Kept(c)))

\* Two raw records, the invalid one dropped, and the reported count 0 raised to 1.
C10_Witness ==
    \E c \in CallIds :
        /\ calls[c].handler.class = "GetConnectedStarRefBotsQuery"
        /\ GotResult(c)
        /\ Len(RawRecords(c)) = 2
        /\ Len(Kept(c)) = 1
        /\ ResultPacket(c).count_ = 0
        /\ SettledValue(c).total_count = 1
        /\ Len(SettledValue(c).programs) = 1

(***************************************************************************)
(* C11: in list connections the next offset of the result is the date of   *)
(* the last record of the raw response list, a space, and its url, also    *)
(* when that record is dropped as invalid: two responses with the same     *)
(* last raw record give the same next offset whatever was kept.            *)
(***************************************************************************)
\* "<date> <url>" of the last raw record; the start-of-list token for no record.
LastRawPosition(refs) ==
    IF refs = <<>> THEN <<>>
    ELSE to_decimal(refs[Len(refs)].date) \o <<" ">> \o refs[Len(refs)].url

C11_RawCursor ==
    \A c \in CallIds :
        (IsListCall(c) /\ GotResult(c)) =>
            /\ Len(Settlements(c)) = 1
            /\ Settlements(c)[1].ev = "set_value"
            /\ SettledValue(c).next_offset = LastRawPosition(ResultPacket(c).connected_bots_)

\* A valid record followed by one without bot: one program kept, and the
\* next offset is that of the dropped record.
C11_Witness ==
    \E c \in CallIds :
        /\ IsListCall(c)
        /\ GotResult(c)
        /\ ResultPacket(c).connected_bots_ =
                <<[bot_id |-> 2, url |-> Url_u, date |-> 5],
                  [bot_id |-> 0, url |-> Url_u, date |-> 6]>>
        /\ Len(SettledValue(c).programs) = 1
        /\ SettledValue(c).next_offset = <<"6", " ", "u">>

(***************************************************************************)
(* C12: get single connection: a response that deserializes and carries no *)
(* connection record settles the promise with the null value and never     *)
(* with an error; a response with two or more records settles it with the  *)
(* error 500 'Receive invalid response'.                                   *)
(***************************************************************************)
InvalidResponse == StatusError(500, "Receive invalid response")

IsSingleCall(c) == calls[c].handler.class = "GetConnectedStarRefBotQuery"

C12_NoConnection ==
    \A c \in CallIds :
        (IsSingleCall(c) /\ GotResult(c)) =>
            LET refs == ResultPacket(c).connected_bots_
            IN  /\ refs = <<>> =>
                    /\ Settlements(c) = <<SetValue(NullObject)>>
                    /\ ~Has(calls[c].log, {"set_error", "on_get_dialog_error"})
                    /\ AdapterState(c) = "Resolved"
                /\ Len(refs) >= 2 =>
                    /\ SettledWithError(c, InvalidResponse)
                    /\ AdapterState(c) = "Failed"

\* The reply had no record and the promise holds the null value.
C12_Witness ==
    \E c \in CallIds :
        /\ IsSingleCall(c)
        /\ GotResult(c)
        /\ ResultPacket(c).connected_bots_ = <<>>
        /\ Settlements(c) = <<SetValue(NullObject)>>

(***************************************************************************)
(* C13: connect program and revise connection: a response with no record   *)
(* or with more than one settles the promise with the error 500 'Receive    *)
(* invalid response'; a response with exactly one record settles it with   *)
(* that record as a connection object when the record is valid (bot id not *)
(* zero, url not empty) and with the same error when it is not.  An        *)
(* invalid single record never ends in a success.                          *)
(***************************************************************************)
IsConnectOrRevise(c) ==
    calls[c].handler.class \in {"ConnectStarRefBotQuery", "EditConnectedStarRefBotQuery"}

C13_ExactlyOneRecord ==
    \A c \in CallIds :
        (IsConnectOrRevise(c) /\ GotResult(c)) =>
            LET refs == ResultPacket(c).connected_bots_
            IN  /\ Len(Settlements(c)) = 1
                /\ Len(refs) # 1 => SettledWithError(c, InvalidResponse)
                /\ Len(refs) = 1 =>
                    IF refs[1].bot_id # 0 /\ refs[1].url # <<>>
                    THEN Settlements(c) =
                            <<SetValue([url |-> refs[1].url, bot_user_id |-> refs[1].bot_id,
                                        connection_date |-> refs[1].date])>>
                    ELSE SettledWithError(c, InvalidResponse)
                /\ Settlements(c)[1].ev = "set_value" =>
                    Len(refs) = 1 /\ refs[1].bot_id # 0 /\ refs[1].url # <<>>

\* Revise connection got one record without url and failed with the 500.
C13_Witness ==
    \E c \in CallIds :
        /\ calls[c].handler.class = "EditConnectedStarRefBotQuery"
        /\ GotResult(c)
        /\ ResultPacket(c).connected_bots_ = <<[bot_id |-> 2, url |-> <<>>, date |-> 7]>>
        /\ SettledWithError(c, InvalidResponse)

(***************************************************************************)
(* C14: resolve program: when the response resolves to a peer that is not  *)
(* a User, or to a User that UserManager does not know once the users of   *)
(* the response were handed to it, the promise is settled with the error   *)
(* 400 'Chat not found' and no dialog is created; only a known User leads  *)
(* to force_create_dialog and to the promise holding the chat.             *)
(***************************************************************************)
ChatNotFound == StatusError(400, "Chat not found")

IsResolveCall(c) == calls[c].handler.class = "ResolveReferralProgramQuery"

\* Position of the first event of one of the kinds in the log of c, 0 for none.
FirstIndex(c, kinds) ==
    IF Has(calls[c].log, kinds)
    THEN CHOOSE i \in 1..Len(calls[c].log) :
            /\ calls[c].log[i].ev \in kinds
            /\ \A j \in 1..(i - 1) : calls[c].log[j].ev \notin kinds
    ELSE 0

C14_KnownUserOnly ==
    \A c \in CallIds :
        (IsResolveCall(c) /\ GotResult(c)) =>
            LET peer == ResultPacket(c).peer
                log == calls[c].log
            IN  /\ Len(Settlements(c)) = 1
                /\ FirstIndex(c, {"on_get_users"}) < FirstIndex(c, {"set_value", "set_error"})
                /\ peer.type # "User" =>
                    /\ SettledWithError(c, ChatNotFound)
                    /\ ~Has(log, {"force_create_dialog"})
                    /\ peer \notin created_dialogs
                /\ (peer.type = "User" /\ peer.id \notin users) =>
                    /\ SettledWithError(c, ChatNotFound)
                    /\ ~Has(log, {"force_create_dialog"})
                /\ (peer.type = "User" /\ peer.id \in InitialUsers \cup ResultPacket(c).users_) =>
                    /\ Settlements(c) = <<SetValue([chat |-> peer])>>
                    /\ peer \in created_dialogs
                    /\ FirstIndex(c, {"force_create_dialog"}) > 0
                    /\ FirstIndex(c, {"force_create_dialog"}) < FirstIndex(c, {"set_value"})
                /\ Settlements(c)[1].ev = "set_value" =>
                    /\ peer.type = "User"
                    /\ peer.id \in users
                    /\ Has(log, {"force_create_dialog"})

\* The name resolved to a channel: the error, and no dialog for it.
C14_Witness ==
    \E c \in CallIds :
        /\ IsResolveCall(c)
        /\ GotResult(c)
        /\ ResultPacket(c).peer = DialogId("Channel", 1)
        /\ SettledWithError(c, ChatNotFound)
        /\ created_dialogs = {}

(***************************************************************************)
(* C15: in search suggested programs, connect, revise, get single          *)
(* connection and list connections, whenever on_error(status) runs,        *)
(* on_get_dialog_error is called for the handler's own dialog with that    *)
(* status first, and only then the promise is settled, with the same       *)
(* status unchanged.                                                       *)
(***************************************************************************)
TargetScopedClasses ==
    {"GetSuggestedStarRefBotsQuery", "ConnectStarRefBotQuery",
     "EditConnectedStarRefBotQuery", "GetConnectedStarRefBotQuery",
     "GetConnectedStarRefBotsQuery"}

\* The handler of c ran on_error: the transport called it, or on_result did.
RanOnError(c) ==
    /\ Delivered(c)
    /\ Has(calls[c].log, {"set_error"})

Notifications(c) == Events(calls[c].log, {"on_get_dialog_error"})

C15_NotifyThenSettle ==
    \A c \in CallIds :
        (calls[c].handler.class \in TargetScopedClasses /\ RanOnError(c)) =>
            /\ Len(Notifications(c)) = 1
            /\ Len(Settlements(c)) = 1
            /\ FirstIndex(c, {"on_get_dialog_error"}) < FirstIndex(c, {"set_error"})
            /\ Notifications(c)[1].dialog_id = calls[c].args.dialog_id
            /\ Notifications(c)[1].dialog_id = calls[c].handler.dialog_id_
            /\ Notifications(c)[1].status = Settlements(c)[1].status
            /\ <<calls[c].args.dialog_id, Settlements(c)[1].status>> \in dialog_errors
            /\ Has(calls[c].log, {"on_error"}) =>
                    Settlements(c)[1].status = Events(calls[c].log, {"on_error"})[1].status

\* The transport failed a search; DialogManager was told, then the caller.
C15_Witness ==
    \E c \in CallIds :
        /\ calls[c].handler.class = "GetSuggestedStarRefBotsQuery"
        /\ Has(calls[c].log, {"on_error"})
        /\ Len(Notifications(c)) = 1
        /\ SettledWithError(c, StatusError(400, "CHAT_ADMIN_REQUIRED"))
        /\ <<calls[c].args.dialog_id, StatusError(400, "CHAT_ADMIN_REQUIRED")>> \in dialog_errors

(***************************************************************************)
(* C20: in the five handlers that have a target, an error found by         *)
(* on_result itself (the packet does not deserialize, the record count is  *)
(* not one, the single record is invalid) goes through on_error like a     *)
(* remote error: on_get_dialog_error is called for the target with the 500 *)
(* status before the promise is settled.  The handlers of set program and  *)
(* resolve program never call on_get_dialog_error.                         *)
(***************************************************************************)
\* on_result was called with a packet and found an error itself.
FoundProtocolError(c) ==
    /\ Has(calls[c].log, {"on_result"})
    /\ Has(calls[c].log, {"set_error"})

\* The status on_result fails with, given the packet: the 500 of lines 190 and
\* 198, or the status fetch_result returned.
ProtocolStatus(c) == IF ResultPacket(c).ok THEN InvalidResponse ELSE ResultPacket(c).error

UntargetedClasses == {"UpdateStarRefProgramQuery", "ResolveReferralProgramQuery"}

C20_ProtocolErrorPath ==
    /\ \A c \in CallIds :
        /\ (calls[c].handler.class \in TargetScopedClasses /\ FoundProtocolError(c)) =>
                /\ Notifications(c) =
                        <<OnGetDialogError(calls[c].args.dialog_id, ProtocolStatus(c))>>
                /\ SettledWithError(c, ProtocolStatus(c))
                /\ FirstIndex(c, {"on_get_dialog_error"}) < FirstIndex(c, {"set_error"})
        /\ (calls[c].handler.class \in TargetScopedClasses /\ Has(calls[c].log, {"on_result"})) =>
                LET packet == ResultPacket(c)
                IN  /\ ~packet.ok => FoundProtocolError(c)
                    /\ (/\ packet.ok
                        /\ calls[c].handler.class \in
                                {"ConnectStarRefBotQuery", "EditConnectedStarRefBotQuery",
                                 "GetConnectedStarRefBotQuery"}
                        /\ \/ Len(packet.connected_bots_) > 1
                           \/ Len(packet.connected_bots_) = 0 /\ ~IsSingleCall(c)
                           \/ /\ Len(packet.connected_bots_) = 1
                              /\ ~(packet.connected_bots_[1].bot_id # 0
                                    /\ packet.connected_bots_[1].url # <<>>))
                            => FoundProtocolError(c)
        /\ calls[c].handler.class \in UntargetedClasses => Notifications(c) = <<>>
    /\ \A error \in dialog_errors :
            \E c \in CallIds :
                /\ calls[c].handler.class \in TargetScopedClasses
                /\ error[1] = calls[c].args.dialog_id

\* Revise connection got two records: DialogManager was told of the 500.
C20_Witness ==
    \E c \in CallIds :
        /\ calls[c].handler.class = "EditConnectedStarRefBotQuery"
        /\ GotResult(c)
        /\ Len(ResultPacket(c).connected_bots_) = 2
        /\ Notifications(c) = <<OnGetDialogError(calls[c].args.dialog_id, InvalidResponse)>>
        /\ SettledWithError(c, InvalidResponse)

(***************************************************************************)
(* C18: the eligibility rules apply in order and the first that fails      *)
(* gives the error: a target without read access fails with the access     *)
(* error whatever its kind, a Chat included; a Channel that is not a       *)
(* broadcast channel fails with 'The chat must be a channel chat' also     *)
(* when the caller cannot post in it; a broadcast Channel without post     *)
(* rights fails with 'Not enough rights in the chat'.                      *)
(***************************************************************************)
MustBeChannel == StatusError(400, "The chat must be a channel chat")

NotEnoughRights == StatusError(400, "Not enough rights in the chat")

C18_FirstFailingRule ==
    \A c \in CallIds :
        calls[c].op \in TargetScopedOps =>
            LET dialog_id == calls[c].args.dialog_id
                access == check_dialog_access(dialog_id)
            IN  /\ access # StatusOK =>
                    /\ SettledWithError(c, access)
                    /\ access \notin {MustBeChannel, NotEnoughRights}
                    /\ Queries(c) = <<>>
                /\ (access = StatusOK /\ dialog_id.type = "Chat") =>
                    SettledWithError(c, MustBeChannel)
                /\ (/\ access = StatusOK
                    /\ dialog_id.type = "Channel"
                    /\ ~is_broadcast_channel(dialog_id.id)) =>
                        /\ SettledWithError(c, MustBeChannel)
                        /\ Queries(c) = <<>>
                /\ (/\ access = StatusOK
                    /\ dialog_id.type = "Channel"
                    /\ is_broadcast_channel(dialog_id.id)
                    /\ ~can_post_messages(dialog_id.id)) =>
                        /\ SettledWithError(c, NotEnoughRights)
                        /\ Queries(c) = <<>>

\* A supergroup the caller cannot post in: the kind decided, not the rights.
C18_Witness ==
    \E c \in CallIds :
        /\ calls[c].op = "connect_referral_program"
        /\ calls[c].args.dialog_id = DialogId("Channel", 4)
        /\ ~is_broadcast_channel(4) /\ ~can_post_messages(4)
        /\ SettledWithError(c, MustBeChannel)

(***************************************************************************)
(* C19: for a User target with read access that is neither the caller nor  *)
(* a bot the caller can edit, a user that is not a bot included,           *)
(* check_referable_dialog_id fails with 'The bot isn't owned'.             *)
(***************************************************************************)
BotNotOwned == StatusError(400, "The bot isn't owned")

\* A readable User target of a call that goes through the validator, not the caller.
OtherUserTarget(c) ==
    /\ calls[c].op \in TargetScopedOps
    /\ calls[c].args.dialog_id.type = "User"
    /\ check_dialog_access(calls[c].args.dialog_id) = StatusOK
    /\ calls[c].args.dialog_id # get_my_dialog_id

\* The claim as stated.
C19_AsStated ==
    \A c \in CallIds :
        (/\ OtherUserTarget(c)
         /\ ~(/\ get_bot_data(calls[c].args.dialog_id.id).ok
              /\ get_bot_data(calls[c].args.dialog_id.id).can_be_edited)) =>
            SettledWithError(c, BotNotOwned)

\* Amended: 'The bot isn't owned' is the error for a bot whose data the caller
\* cannot edit; when get_bot_data itself fails, its error is the result,
\* unchanged.  Either way nothing is dispatched.
C19_NotOwnedOrLookupError ==
    \A c \in CallIds :
        OtherUserTarget(c) =>
            LET bot_data == get_bot_data(calls[c].args.dialog_id.id)
            IN  /\ (bot_data.ok /\ ~bot_data.can_be_edited) =>
                    /\ SettledWithError(c, BotNotOwned)
                    /\ Queries(c) = <<>>
                /\ ~bot_data.ok =>
                    /\ SettledWithError(c, bot_data.status)
                    /\ calls[c].log[1] = Validated(calls[c].args.dialog_id, bot_data.status)
                    /\ Queries(c) = <<>>

\* A regular user as the target: the error of get_bot_data reached the caller.
C19_Witness ==
    \E c \in CallIds :
        /\ OtherUserTarget(c)
        /\ calls[c].args.dialog_id = DialogId("User", 5)
        /\ ~get_bot_data(5).ok
        /\ SettledWithError(c, get_bot_data(5).status)
        /\ ~SettledWithError(c, BotNotOwned)

(***************************************************************************)
(* SpecLive: every operation on an eligible and on an ineligible target,   *)
(* the session torn down at any moment.  Until then the transport owes     *)
(* every dispatched request one outcome, and delivers it: weak fairness of *)
(* the delivery to each call.                                              *)
(***************************************************************************)
LiveCallStep(c) ==
    \/ Call_set_dialog_referral_program(c, {DialogId("User", 2), DialogId("Chat", 1)},
            {DefaultParameters, ReferralProgramParameters(10, 12)})
    \/ Call_search_dialog_referral_program(c, {Url_u}, {Url_u})
    \/ Call_search_referral_programs(c, {DialogId("Channel", 1), DialogId("Chat", 1)},
            {"Date"}, {<<>>}, {MaxLimit})
    \/ Call_connect_referral_program(c, {DialogId("Channel", 1)}, BotUserIds)
    \/ Call_revoke_referral_program(c, {DialogId("Channel", 1), DialogId("Channel", 2)},
            {Url_u})
    \/ Call_get_connected_referral_program(c, {DialogId("User", 1)}, BotUserIds)
    \/ Call_get_connected_referral_programs(c, {DialogId("Channel", 1)}, {<<>>}, Limits)

NextLive ==
    \/ \E c \in CallIds : LiveCallStep(c) \/ ResultStep(c) \/ ErrorStep(c)
    \/ tear_down

SpecLive ==
    /\ Init
    /\ [][NextLive]_vars
    /\ \A c \in CallIds : WF_vars(ResultStep(c) \/ ErrorStep(c))

(***************************************************************************)
(* C17: provided the transport delivers one outcome for every dispatched   *)
(* request and the session is not torn down, the promise of every invoked  *)
(* operation is eventually settled; a promise that is not settled yet      *)
(* belongs to a request that was sent and whose outcome is still owed, so  *)
(* that once send was issued only the teardown can leave it unsettled.     *)
(***************************************************************************)
C17_EventuallySettled ==
    \A c \in CallIds :
        /\ [](Invoked(c) => <>(Len(Settlements(c)) = 1 \/ ~parent_))
        /\ []((Invoked(c) /\ Settlements(c) = <<>>) =>
                /\ Len(Queries(c)) = 1
                /\ ~Delivered(c)
                /\ parent_ => \E class \in TargetScopedClasses \cup UntargetedClasses :
                                    AwaitsOutcome(c, class))

\* The reply to a dispatched request arrived and settled the promise, the
\* session still up.
C17_Witness ==
    \E c \in CallIds :
        /\ calls[c].handler.class = "ConnectStarRefBotQuery"
        /\ Len(Queries(c)) = 1
        /\ Delivered(c)
        /\ Len(Settlements(c)) = 1
        /\ parent_

\* The gap: the session was torn down with a request out and its promise open.
C17_TornDownUnsettled ==
    \E c \in CallIds :
        /\ Len(Queries(c)) = 1
        /\ Settlements(c) = <<>>
        /\ ~parent_

(***************************************************************************)
(* SpecConcurrent: MaxAdapters handlers of resolve program and of list     *)
(* connections in flight together, their outcomes delivered in any order.  *)
(***************************************************************************)
AdapterIds == 1..MaxAdapters

InitConcurrent ==
    /\ calls = [c \in AdapterIds |-> NoCall]
    /\ users = InitialUsers
    /\ dialog_errors = {}
    /\ created_dialogs = {}
    /\ referral_infos = {}
    /\ crashed = FALSE
    /\ parent_ = TRUE

\* Pages of connections; one of them brings user 6 along.
IngestingPackets ==
    ConnectedPackets(ConnectedRefs, 1, {0}) \cup
    {[ok |-> TRUE, users_ |-> {6}, connected_bots_ |-> <<>>, count_ |-> 0]}

NextConcurrent ==
    \E c \in AdapterIds :
        \/ Call_search_dialog_referral_program(c, {Url_u}, {Url_u})
        \/ Call_get_connected_referral_programs(c, {DialogId("Channel", 1)}, {<<>>}, {MaxLimit})
        \/ ResolveReferralProgramQuery_Result(c, ResolvePackets)
        \/ ResolveReferralProgramQuery_Error(c, RemoteStatuses)
        \/ GetConnectedStarRefBotsQuery_Result(c, IngestingPackets)
        \/ GetConnectedStarRefBotsQuery_Error(c, RemoteStatuses)

SpecConcurrent == InitConcurrent /\ [][NextConcurrent]_vars

(***************************************************************************)
(* C16: with several handlers in flight and their outcomes delivered in    *)
(* any order, the result each promise gets is determined by the handler's  *)
(* own request and own response only: two handlers with the same request   *)
(* and the same outcome settle alike, whatever was delivered in between.   *)
(***************************************************************************)
\* The outcome the transport delivered to c: the on_result or on_error event.
Outcome(c) == Events(calls[c].log, {"on_result", "on_error"})[1]

SameRequestAndOutcome(c, d) ==
    /\ Delivered(c) /\ Delivered(d)
    /\ calls[c].op = calls[d].op
    /\ calls[c].args = calls[d].args
    /\ Queries(c) = Queries(d)
    /\ Outcome(c) = Outcome(d)

\* The claim as stated.
C16_AsStated ==
    \A c, d \in AdapterIds :
        SameRequestAndOutcome(c, d) => Settlements(c) = Settlements(d)

\* The response of resolve program names a user that it does not carry and
\* that UserManager did not know at the start.
ResolvesForeignUser(c) ==
    /\ IsResolveCall(c)
    /\ GotResult(c)
    /\ ResultPacket(c).peer.type = "User"
    /\ ResultPacket(c).peer.id \notin InitialUsers \cup ResultPacket(c).users_

\* Amended: the handlers do write UserManager (on_get_users).  Own request and
\* own outcome determine the result of every handler but that of a resolve
\* program whose resolved user is known neither beforehand nor from its own
\* response: it gets the chat if a response handled earlier brought the user,
\* and 'Chat not found' otherwise.
C16_OwnRequestAndOutcome ==
    /\ \A c, d \in AdapterIds :
        (SameRequestAndOutcome(c, d) /\ ~ResolvesForeignUser(c)) =>
            Settlements(c) = Settlements(d)
    /\ \A c \in AdapterIds :
        /\ Delivered(c) => Len(Settlements(c)) = 1
        /\ ResolvesForeignUser(c) =>
            /\ Settlements(c) \in {<<SetError(ChatNotFound)>>,
                                   <<SetValue([chat |-> ResultPacket(c).peer])>>}
            /\ Settlements(c)[1].ev = "set_value" =>
                \E d \in AdapterIds \ {c} :
                    /\ GotResult(d)
                    /\ ResultPacket(c).peer.id \in ResultPacket(d).users_
        /\ (IsListCall(c) /\ GotResult(c)) =>
            /\ SettledValue(c).programs = Kept(c)
            /\ SettledValue(c).next_offset = LastRawPosition(ResultPacket(c).connected_bots_)

C16_TerminalUntouched ==
    \A c \in AdapterIds :
        Settlements(c) # <<>> => calls[c]' = calls[c]

C16_Independent == [](C16_OwnRequestAndOutcome) /\ [][C16_TerminalUntouched]_vars

\* Two resolve programs with the same request and the same response, a page
\* of connections that brought user 6 handled between them: one failed, the
\* other got the chat.
C16_Witness ==
    \E c, d \in AdapterIds :
        /\ SameRequestAndOutcome(c, d)
        /\ ResolvesForeignUser(c)
        /\ SettledWithError(c, ChatNotFound)
        /\ Settlements(d) = <<SetValue([chat |-> DialogId("User", 6)])>>
        /\ \E e \in AdapterIds : IsListCall(e) /\ GotResult(e) /\ ResultPacket(e).users_ = {6}

(***************************************************************************)
(* C21: the order of the checks in the facade.  Search suggested programs  *)
(* and list connections test the target before the limit: with a target    *)
(* that fails check_referable_dialog_id and a limit <= 0 the promise gets  *)
(* the error of the target, not 'Limit must be positive'.  Set program     *)
(* tests the parameters before the target: parameters that are invalid and *)
(* not the sentinel give 'Invalid affiliate parameters specified' also     *)
(* for a target that is not a User or not an owned bot.                    *)
(***************************************************************************)
\* The target of set program would be turned away by the checks of the target.
SetProgramTargetFails(dialog_id) ==
    \/ dialog_id.type # "User"
    \/ ~get_bot_data(dialog_id.id).ok
    \/ ~get_bot_data(dialog_id.id).can_be_edited

C21_CheckPrecedence ==
    \A c \in CallIds :
        /\ (/\ calls[c].op \in {"search_referral_programs", "get_connected_referral_programs"}
            /\ calls[c].args.limit <= 0
            /\ ~Referable(calls[c].args.dialog_id)) =>
                /\ SettledWithError(c, check_referable_dialog_id(calls[c].args.dialog_id))
                /\ ~SettledWithError(c, LimitMustBePositive)
                /\ calls[c].log[1] =
                        Validated(calls[c].args.dialog_id,
                                  check_referable_dialog_id(calls[c].args.dialog_id))
                /\ Queries(c) = <<>>
        /\ (/\ calls[c].op = "set_dialog_referral_program"
            /\ calls[c].args.parameters # DefaultParameters
            /\ ~Parameters_is_valid(calls[c].args.parameters)
            /\ SetProgramTargetFails(calls[c].args.dialog_id)) =>
                /\ SettledWithError(c, InvalidParameters)
                /\ Len(calls[c].log) = 1
                /\ Queries(c) = <<>>

\* A Chat target and limit 0 in list connections: the error is the target's.
C21_Witness ==
    \E c \in CallIds :
        /\ calls[c].op = "get_connected_referral_programs"
        /\ calls[c].args.dialog_id = DialogId("Chat", 1)
        /\ calls[c].args.limit = 0
        /\ SettledWithError(c, MustBeChannel)

\* Invalid parameters for a channel in set program: the error is the parameters'.
C21_WitnessSetProgram ==
    \E c \in CallIds :
        /\ calls[c].op = "set_dialog_referral_program"
        /\ calls[c].args.dialog_id = DialogId("Channel", 1)
        /\ calls[c].args.parameters = ReferralProgramParameters(1000, 12)
        /\ SettledWithError(c, InvalidParameters)

(***************************************************************************)
(* SpecPaging: a caller pages through the connections of a channel.  Call  *)
(* 1 asks for the first page; call c + 1 is made once call c got its       *)
(* result, with the next offset of that result as its offset.              *)
(***************************************************************************)
PageIds == 1..MaxPages

InitPaging ==
    /\ calls = [c \in PageIds |-> NoCall]
    /\ users = InitialUsers
    /\ dialog_errors = {}
    /\ created_dialogs = {}
    /\ referral_infos = {}
    /\ crashed = FALSE
    /\ parent_ = TRUE

\* Raw records: a valid one, one without bot, one whose url has a space, one
\* with date 0 and no url, one with a negative date, one with the largest date.
PagingRefs ==
    {[bot_id |-> 2, url |-> Url_u, date |-> 5],
     [bot_id |-> 0, url |-> Url_u, date |-> 6],
     [bot_id |-> 2, url |-> <<"u", " ", "v">>, date |-> 10],
     [bot_id |-> 2, url |-> <<>>, date |-> 0],
     [bot_id |-> 2, url |-> Url_u, date |-> -3],
     [bot_id |-> 2, url |-> Str_t_me_bot, date |-> 2147483647]}

\* The empty page, every page of one record, and a page of two records whose
\* last one is invalid.
PagingPackets ==
    ConnectedPackets(PagingRefs, 1, {0}) \cup
    {[ok |-> TRUE, users_ |-> {2}, count_ |-> 0,
      connected_bots_ |-> <<[bot_id |-> 2, url |-> Url_u, date |-> 5],
                            [bot_id |-> 0, url |-> Url_u, date |-> 6]>>]}

NextPaging ==
    \E c \in PageIds :
        \/ /\ c = 1
           /\ Call_get_connected_referral_programs(c, {DialogId("Channel", 1)}, {<<>>},
                                                   {MaxLimit})
        \/ /\ c > 1
           /\ IsListCall(c - 1) /\ GotResult(c - 1)
           /\ Call_get_connected_referral_programs(c, {DialogId("Channel", 1)},
                    {SettledValue(c - 1).next_offset}, {MaxLimit})
        \/ GetConnectedStarRefBotsQuery_Result(c, PagingPackets)

SpecPaging == InitPaging /\ [][NextPaging]_vars

(***************************************************************************)
(* C22: in list connections the next offset of a result is the empty       *)
(* string if and only if the raw list of the response is empty.  When the  *)
(* caller passes each next offset on as the offset of the next request,    *)
(* the request after an empty page is that of the first page (no flag,     *)
(* date 0, empty url), and every other follow-up request carries the       *)
(* offset flag and the date and url of the last raw record of the page     *)
(* before.                                                                 *)
(***************************************************************************)
\* The request of list connections for the first page of the channel.
FirstPageQuery ==
    [name |-> "payments_getConnectedStarRefBots", flags |-> {},
     peer |-> DialogId("Channel", 1), offset_date |-> 0, offset_link |-> <<>>,
     limit |-> MaxLimit]

C22_PagingProgress ==
    \A c \in PageIds :
        /\ (IsListCall(c) /\ GotResult(c)) =>
                (SettledValue(c).next_offset = <<>>
                    <=> ResultPacket(c).connected_bots_ = <<>>)
        /\ (c > 1 /\ Invoked(c)) =>
                LET refs == ResultPacket(c - 1).connected_bots_
                    query == Queries(c)[1].query
                IN  /\ calls[c].args.offset = SettledValue(c - 1).next_offset
                    /\ Len(Queries(c)) = 1
                    /\ refs = <<>> =>
                            /\ query = FirstPageQuery
                            /\ query = Queries(1)[1].query
                    /\ refs # <<>> =>
                            /\ query.flags = {"OFFSET_DATE_MASK"}
                            /\ query.offset_date = refs[Len(refs)].date
                            /\ query.offset_link = refs[Len(refs)].url
                            /\ query # FirstPageQuery

\* A page whose last record was dropped, then an empty page, then the third
\* request: the second carried the position of the dropped record, the third
\* is the request of the first page again.
C22_Witness ==
    /\ GotResult(1) /\ Len(ResultPacket(1).connected_bots_) = 2
    /\ Len(SettledValue(1).programs) = 1
    /\ Queries(2) # <<>>
    /\ Queries(2)[1].query.offset_date = 6
    /\ Queries(2)[1].query.offset_link = Url_u
    /\ GotResult(2) /\ ResultPacket(2).connected_bots_ = <<>>
    /\ Queries(3) # <<>>
    /\ Queries(3)[1].query = Queries(1)[1].query

====
